---- MODULE Spec2Model ----
(***************************************************************************)
(* Model of the invoice-ai-excel backend: the customer catalog             *)
(* (KnowledgeBaseManager), the name normalizer, the fuzzy similarity       *)
(* search, the match arbitrator (InvoiceProcessorClient), the batch        *)
(* processor and the reconciliation step of the /process-invoices service. *)
(*                                                                         *)
(* Strings are sequences of one-character strings.  Money is counted in    *)
(* thousandths of a currency unit, so that the 0.01 price tolerance and    *)
(* the /1000 weight conversion are both integer arithmetic.  Similarity    *)
(* scores are the integer percentages fuzz.ratio returns (0..100), and a   *)
(* combined confidence is kept as score * weight (weight 95 or 70), i.e.   *)
(* in units of 1/10000.                                                    *)
(***************************************************************************)
EXTENDS Integers, Sequences, FiniteSets, TLC

VARIABLES customers, model, op, arg, ret

vars == <<customers, model, op, arg, ret>>

(***************************************************************************)
(* Generic sequence helpers                                                *)
(***************************************************************************)
Range(s) == {s[i] : i \in 1..Len(s)}

RECURSIVE Concat(_)
Concat(ss) == IF ss = <<>> THEN <<>> ELSE Head(ss) \o Concat(Tail(ss))

RECURSIVE SeqsUpTo(_, _)
SeqsUpTo(S, n) ==
    IF n = 0 THEN {<<>>}
    ELSE LET shorter == SeqsUpTo(S, n - 1)
         IN  shorter \cup {Append(s, x) : s \in shorter, x \in S}

Take(s, n) == SubSeq(s, 1, IF Len(s) < n THEN Len(s) ELSE n)

\* indices 1..Len(keys) ordered by non-increasing key, equal keys keeping
\* their original order (list.sort(reverse=True), heapq.nlargest)
RECURSIVE InsertDesc(_, _, _)
InsertDesc(idx, i, keys) ==
    IF idx = <<>> THEN <<i>>
    ELSE IF keys[Head(idx)] >= keys[i] THEN <<Head(idx)>> \o InsertDesc(Tail(idx), i, keys)
    ELSE <<i>> \o idx

RECURSIVE SortIdxDesc(_, _)
SortIdxDesc(keys, n) ==
    IF n = 0 THEN <<>> ELSE InsertDesc(SortIdxDesc(keys, n - 1), n, keys)

SortDescBy(s, keys) ==
    LET idx == SortIdxDesc(keys, Len(s)) IN [j \in 1..Len(s) |-> s[idx[j]]]

\* Python's None and a present value
None == <<>>
Some(v) == <<v>>
Val(o) == o[1]

(***************************************************************************)
(* Characters and str methods                                              *)
(***************************************************************************)
Uppers == <<"A","B","C","D","E","F","G","H","I","J","K","L","M",
            "N","O","P","Q","R","S","T","U","V","W","X","Y","Z">>
Lowers == <<"a","b","c","d","e","f","g","h","i","j","k","l","m",
            "n","o","p","q","r","s","t","u","v","w","x","y","z">>
Digits == {"0","1","2","3","4","5","6","7","8","9"}

\* U+FF4D, FULLWIDTH LATIN SMALL LETTER M: a word character that NFKC
\* normalization folds to the ASCII letter "m".
FullwidthM == "U+FF4D"

UpperSet == Range(Uppers)
LowerSet == Range(Lowers)
WordChars == UpperSet \cup LowerSet \cup Digits \cup {"_", FullwidthM}
LowerOf == [c \in UpperSet |-> Lowers[CHOOSE i \in 1..26 : Uppers[i] = c]]
UpperOf == [c \in LowerSet |-> Uppers[CHOOSE i \in 1..26 : Lowers[i] = c]]

IsSpace(c) == c = " "
IsWord(c) == c \in WordChars

LowerChar(c) == IF c \in UpperSet THEN LowerOf[c] ELSE c
UpperChar(c) == IF c \in LowerSet THEN UpperOf[c] ELSE c

Lower(s) == [i \in 1..Len(s) |-> LowerChar(s[i])]
Upper(s) == [i \in 1..Len(s) |-> UpperChar(s[i])]

RECURSIVE LStrip(_)
LStrip(s) == IF s # <<>> /\ IsSpace(Head(s)) THEN LStrip(Tail(s)) ELSE s

RECURSIVE RStrip(_)
RStrip(s) == IF s # <<>> /\ IsSpace(s[Len(s)]) THEN RStrip(SubSeq(s, 1, Len(s) - 1)) ELSE s

Strip(s) == RStrip(LStrip(s))

StartsWith(s, p) == Len(p) <= Len(s) /\ SubSeq(s, 1, Len(p)) = p
EndsWith(s, p) == Len(p) <= Len(s) /\ SubSeq(s, Len(s) - Len(p) + 1, Len(s)) = p

\* p in s
Contains(s, p) == \E i \in 1..(Len(s) - Len(p) + 1) : SubSeq(s, i, i + Len(p) - 1) = p

\* ' '.join(s.split())
RECURSIVE CollapseLeft(_)
CollapseLeft(s) ==
    IF s = <<>> THEN <<>>
    ELSE IF IsSpace(Head(s)) /\ Len(s) >= 2 /\ IsSpace(s[2]) THEN CollapseLeft(Tail(s))
    ELSE <<Head(s)>> \o CollapseLeft(Tail(s))

SplitJoin(s) == CollapseLeft(Strip(s))

(***************************************************************************)
(* KnowledgeBaseManager.clean_name_for_matching                            *)
(***************************************************************************)
prefixes_to_remove ==
    << <<"m","r",".">>, <<"m","r","s",".">>, <<"m","s",".">>, <<"e","n",".">>,
       <<"p","n",".">>, <<"d","r",".">>, <<"p","r","o","f",".">> >>

suffixes_to_remove ==
    << <<"s","d","n"," ","b","h","d">>, <<"s","d","n",".","b","h","d",".">>,
       <<"b","h","d">>, <<"p","t","e"," ","l","t","d">>, <<"l","t","d">>,
       <<"i","n","c">>, <<"c","o","r","p">> >>

\* one pass over the prefix list, in list order
RECURSIVE RemovePrefixes(_, _)
RemovePrefixes(cleaned, prefixes) ==
    IF prefixes = <<>> THEN cleaned
    ELSE LET prefix == Head(prefixes)
             next == IF StartsWith(cleaned, prefix)
                     THEN Strip(SubSeq(cleaned, Len(prefix) + 1, Len(cleaned)))
                     ELSE cleaned
         IN  RemovePrefixes(next, Tail(prefixes))

\* one pass over the suffix list, in list order
RECURSIVE RemoveSuffixes(_, _)
RemoveSuffixes(cleaned, suffixes) ==
    IF suffixes = <<>> THEN cleaned
    ELSE LET suffix == Head(suffixes)
             next == IF EndsWith(cleaned, suffix)
                     THEN Strip(SubSeq(cleaned, 1, Len(cleaned) - Len(suffix)))
                     ELSE cleaned
         IN  RemoveSuffixes(next, Tail(suffixes))

\* re.sub(r'[^\w\s\u4e00-\u9fff@&().-]', ' ', cleaned)
KeptPunctuation == {"@", "&", "(", ")", ".", "-"}
ReplaceSpecial(s) ==
    [i \in 1..Len(s) |-> IF IsWord(s[i]) \/ IsSpace(s[i]) \/ s[i] \in KeptPunctuation
                         THEN s[i] ELSE " "]

\* unicodedata.normalize('NFKC', cleaned)
NFKC(s) == [i \in 1..Len(s) |-> IF s[i] = FullwidthM THEN "m" ELSE s[i]]

clean_name_for_matching(name) ==
    IF name = <<>> THEN <<>>
    ELSE LET lowered == Strip(Lower(name))
             noPrefix == RemovePrefixes(lowered, prefixes_to_remove)
             noSuffix == RemoveSuffixes(noPrefix, suffixes_to_remove)
         IN  SplitJoin(NFKC(ReplaceSpecial(noSuffix)))

(***************************************************************************)
(* fuzzywuzzy: process.extract(query, choices, scorer=fuzz.ratio, limit=k) *)
(***************************************************************************)
\* utils.full_process, applied by process.extract to the query and to each
\* choice: non-word characters become spaces, lower-case, strip
full_process(s) ==
    Strip(Lower([i \in 1..Len(s) |-> IF IsWord(s[i]) THEN s[i] ELSE " "]))

Max(a, b) == IF a >= b THEN a ELSE b
Abs(x) == IF x < 0 THEN -x ELSE x

\* one row of the longest-common-subsequence table: cur[c+1] is the value
\* for the first c characters of b
RECURSIVE LcsRow(_, _, _, _)
LcsRow(a, b, prev, cur) ==
    IF Len(cur) = Len(b) + 1 THEN cur
    ELSE LET c == Len(cur)
             v == IF a = b[c] THEN prev[c] + 1 ELSE Max(prev[c + 1], cur[c])
         IN  LcsRow(a, b, prev, Append(cur, v))

RECURSIVE LcsRows(_, _, _)
LcsRows(s1, s2, prev) ==
    IF s1 = <<>> THEN prev[Len(s2) + 1]
    ELSE LcsRows(Tail(s1), s2, LcsRow(Head(s1), s2, prev, <<0>>))

\* number of matching characters M of the two strings
Matches(s1, s2) == LcsRows(s1, s2, [c \in 1..(Len(s2) + 1) |-> 0])

\* int(round(n / d)), Python 3 rounding (half to even)
RoundDiv(n, d) ==
    LET q == n \div d
        r == n % d
    IN  IF 2 * r < d THEN q
        ELSE IF 2 * r > d THEN q + 1
        ELSE IF q % 2 = 0 THEN q ELSE q + 1

\* fuzz.ratio: 0 for an empty string, else round(100 * 2M / T)
ratio(s1, s2) ==
    IF s1 = <<>> \/ s2 = <<>> THEN 0
    ELSE RoundDiv(200 * Matches(s1, s2), Len(s1) + Len(s2))

\* (mutant) every pair is returned, whatever the limit
process_extract_NoLimit(query, choices, limit) ==
    LET processed_query == full_process(query)
        scores == [i \in 1..Len(choices) |-> ratio(processed_query, full_process(choices[i]))]
        pairs == [i \in 1..Len(choices) |-> [match_name |-> choices[i], score |-> scores[i]]]
    IN  SortDescBy(pairs, scores)

\* the (choice, score) pairs with the `limit` largest scores, best first
process_extract(query, choices, limit) ==
    LET processed_query == full_process(query)
        scores == [i \in 1..Len(choices) |-> ratio(processed_query, full_process(choices[i]))]
        pairs == [i \in 1..Len(choices) |-> [match_name |-> choices[i], score |-> scores[i]]]
    IN  Take(SortDescBy(pairs, scores), limit)

(***************************************************************************)
(* KnowledgeBaseManager: similarity search and exact lookup                *)
(***************************************************************************)
\* the first customer whose cleaned name is match_name, with its score
MatchResult(custs, cleaned_names, m) ==
    LET i == CHOOSE i \in 1..Len(custs) :
                 /\ cleaned_names[i] = m.match_name
                 /\ \A j \in 1..(i - 1) : cleaned_names[j] # m.match_name
        customer == custs[i]
    IN  [customer_name |-> customer.name,
         price_per_ton |-> customer.price_per_ton,
         formula |-> customer.formula,
         company_amount |-> customer.company_amount,
         worker_amount |-> customer.worker_amount,
         confidence_score |-> m.score]

find_customer_matches(custs, extracted_name, k) ==
    IF custs = <<>> THEN <<>>
    ELSE LET Results(cleaned_names, matches) ==
                 [j \in 1..Len(matches) |-> MatchResult(custs, cleaned_names, matches[j])]
             Extract(cleaned_extracted, cleaned_names) ==
                 Results(cleaned_names, process_extract(cleaned_extracted, cleaned_names, k))
         IN  Extract(clean_name_for_matching(extracted_name),
                     [i \in 1..Len(custs) |-> clean_name_for_matching(custs[i].name)])

search_similar_customers(custs, query, top_k) ==
    IF custs = <<>> THEN <<>> ELSE find_customer_matches(custs, query, top_k)

\* (mutant) lookup by normalized name
get_customer_by_name_Cleaned(custs, customer_name) ==
    LET same(i) == clean_name_for_matching(custs[i].name) = clean_name_for_matching(customer_name)
    IN  IF \E i \in 1..Len(custs) : same(i)
        THEN Some(custs[CHOOSE i \in 1..Len(custs) : same(i) /\ \A j \in 1..(i - 1) : ~same(j)])
        ELSE None

\* None, or Some(the first customer with exactly that name)
get_customer_by_name(custs, customer_name) ==
    IF \E i \in 1..Len(custs) : custs[i].name = customer_name
    THEN Some(custs[CHOOSE i \in 1..Len(custs) :
                        /\ custs[i].name = customer_name
                        /\ \A j \in 1..(i - 1) : custs[j].name # customer_name])
    ELSE None

NewCustomer(customer_name, price_per_ton, formula) ==
    [name |-> customer_name, price_per_ton |-> price_per_ton, formula |-> formula,
     company_amount |-> None, worker_amount |-> None]

(***************************************************************************)
(* KnowledgeBaseManager.load_from_excel                                    *)
(*                                                                         *)
(* A workbook is [exists, has_sheet, header, rows]: whether the file       *)
(* exists, whether one of its sheet names contains "price" or "formula",   *)
(* the cells of row 1 and the cells of the rows below.  A cell value is    *)
(* Null, Str(s), Num(n), or Text(t) for a formula code taken as it is.     *)
(***************************************************************************)
\* values of spreadsheet cells and of JSON fields
Missing == [kind |-> "missing"]
Null == [kind |-> "null"]
Str(s) == [kind |-> "str", v |-> s]
Num(n) == [kind |-> "num", v |-> n]
Bad == [kind |-> "bad"]

\* bool(x) of a field value
Truthy(f) ==
    CASE f.kind = "str" -> f.v # <<>>
      [] f.kind = "num" -> f.v # 0
      [] f.kind = "bad" -> TRUE
      [] OTHER -> FALSE

Text(t) == [kind |-> "text", v |-> t]

Kw_customer == <<"c","u","s","t","o","m","e","r">>
Kw_name == <<"n","a","m","e">>
Kw_price == <<"p","r","i","c","e">>
Kw_ton == <<"t","o","n">>
Kw_formula == <<"f","o","r","m","u","l","a">>
Kw_company == <<"c","o","m","p","a","n","y">>
Kw_worker == <<"w","o","r","k","e","r">>

\* the mapping key a header cell is taken for, "" if none
HeaderKey(cell) ==
    IF cell.kind # "str" \/ cell.v = <<>> THEN ""
    ELSE LET header_text == Strip(Lower(cell.v))
         IN  IF Contains(header_text, Kw_customer) \/ Contains(header_text, Kw_name) THEN "name"
             ELSE IF Contains(header_text, Kw_price) \/ Contains(header_text, Kw_ton) THEN "price_per_ton"
             ELSE IF Contains(header_text, Kw_formula) THEN "formula"
             ELSE IF Contains(header_text, Kw_company) /\ ~Contains(header_text, Kw_worker) THEN "company_amount"
             ELSE IF Contains(header_text, Kw_worker) THEN "worker_amount"
             ELSE ""

\* col_mappings: the last column taken for the key, 0 if the key is not mapped
ColumnOf(header, key) ==
    IF \E i \in 1..Len(header) : HeaderKey(header[i]) = key
    THEN CHOOSE i \in 1..Len(header) :
             /\ HeaderKey(header[i]) = key
             /\ \A j \in (i + 1)..Len(header) : HeaderKey(header[j]) # key
    ELSE 0

\* round(x, 2) of an amount in thousandths
Round2(x) == IF x >= 0 THEN RoundDiv(x, 10) * 10 ELSE -(RoundDiv(-x, 10) * 10)

\* the customer a data row yields, or None when the row is skipped
RowCustomer(header, row) ==
    LET Read(name_col, price_col, formula_col, company_col, worker_col) ==
            IF name_col = 0 THEN None
            ELSE IF row[name_col].kind # "str" \/ Strip(row[name_col].v) = <<>> THEN None
            ELSE
            LET name == Strip(row[name_col].v)
                price_per_ton == IF price_col # 0 /\ row[price_col].kind = "num"
                                 THEN row[price_col].v ELSE 0
                formula == IF formula_col # 0 /\ row[formula_col].kind = "text" /\ row[formula_col].v # ""
                           THEN row[formula_col].v ELSE "WEIGHT_PRICE"
                company_amount == IF company_col # 0 /\ row[company_col].kind = "num" /\ row[company_col].v > 0
                                  THEN Some(row[company_col].v) ELSE None
                derived == IF price_per_ton > 0 /\ company_amount # None
                           THEN Some(Round2(price_per_ton - Val(company_amount))) ELSE None
                worker_read == IF worker_col = 0 \/ row[worker_col].kind = "null" THEN None
                               ELSE IF row[worker_col].kind = "num"
                               THEN (IF row[worker_col].v > 0 THEN Some(Round2(row[worker_col].v)) ELSE None)
                               ELSE derived
                worker_amount == IF worker_read = None THEN derived ELSE worker_read
            IN  Some([name |-> name, price_per_ton |-> price_per_ton, formula |-> formula,
                      company_amount |-> company_amount, worker_amount |-> worker_amount])
    IN  Read(ColumnOf(header, "name"), ColumnOf(header, "price_per_ton"),
             ColumnOf(header, "formula"), ColumnOf(header, "company_amount"),
             ColumnOf(header, "worker_amount"))

RECURSIVE RowCustomers(_, _)
RowCustomers(header, rows) ==
    IF rows = <<>> THEN <<>>
    ELSE RowCustomer(header, Head(rows)) \o RowCustomers(header, Tail(rows))

\* what the call raises ("none" if it returns) and self.customers afterwards
load_from_excel(old_customers, wb) ==
    IF ~wb.exists THEN [raised |-> "FileNotFoundError", customers |-> old_customers]
    ELSE IF ~wb.has_sheet THEN [raised |-> "Exception", customers |-> old_customers]
    ELSE IF \A i \in 1..Len(wb.header) : HeaderKey(wb.header[i]) = ""
    THEN [raised |-> "Exception", customers |-> old_customers]
    ELSE LET loaded == RowCustomers(wb.header, wb.rows)
         IN  [raised |-> IF loaded = <<>> THEN "Exception" ELSE "none", customers |-> loaded]

(***************************************************************************)
(* InvoiceProcessorClient: match arbitration                               *)
(***************************************************************************)
\* currency amounts are in thousandths; 0.01 is 10 thousandths
Mills == 1000
PriceTolerance == 10

SearchTopK == 10
TopCandidates == 3
ExactWeight == 95
NameOnlyWeight == 70
\* thresholds on combined confidence, which is in units of 1/10000
GoodNameThreshold == 6000
AcceptThreshold == 5000

\* (mutant) a difference of exactly 0.01 still counts as a match
ExactPriceMatch_Inclusive(extracted_price, customer_price) ==
    /\ extracted_price # None
    /\ Val(extracted_price) # 0
    /\ Val(extracted_price) > 0
    /\ customer_price > 0
    /\ Abs(Val(extracted_price) - customer_price) <= PriceTolerance

ExactPriceMatch(extracted_price, customer_price) ==
    /\ extracted_price # None
    /\ Val(extracted_price) # 0
    /\ Val(extracted_price) > 0
    /\ customer_price > 0
    /\ Abs(Val(extracted_price) - customer_price) < PriceTolerance

CombinedConfidence(similarity_score, exact_price_match) ==
    IF exact_price_match THEN similarity_score * ExactWeight
    ELSE similarity_score * NameOnlyWeight

Candidate(match, extracted_price) ==
    LET exact_price_match == ExactPriceMatch(extracted_price, match.price_per_ton)
    IN  [customer_name |-> match.customer_name,
         similarity_score |-> match.confidence_score,
         customer_price |-> match.price_per_ton,
         extracted_price |-> extracted_price,
         exact_price_match |-> exact_price_match,
         combined_confidence |-> CombinedConfidence(match.confidence_score, exact_price_match)]

SortByConfidence(cands) ==
    SortDescBy(cands, [i \in 1..Len(cands) |-> cands[i].combined_confidence])

\* (mutant) one ranking by combined confidence over both buckets
RankCandidates_Merged(exact_price_matches, name_only_matches) ==
    LET good_name_matches ==
            SelectSeq(name_only_matches, LAMBDA c : c.combined_confidence > GoodNameThreshold)
    IN  SortByConfidence(exact_price_matches \o good_name_matches)

\* (mutant) the name-only matches are not filtered
RankCandidates_NoFilter(exact_price_matches, name_only_matches) ==
    SortByConfidence(exact_price_matches) \o SortByConfidence(name_only_matches)

\* Step 3: exact price matches first, then the good name-only matches
RankCandidates(exact_price_matches, name_only_matches) ==
    LET good_name_matches ==
            SelectSeq(SortByConfidence(name_only_matches),
                      LAMBDA c : c.combined_confidence > GoodNameThreshold)
    IN  SortByConfidence(exact_price_matches) \o good_name_matches

\* (mutant) the fallback takes the last candidate
FallbackFirst_Last(candidates) ==
    IF candidates # <<>> THEN Some(candidates[Len(candidates)].customer_name) ELSE None

\* "prioritize exact price matches, then highest confidence"
FallbackFirst(candidates) ==
    LET exact_matches == SelectSeq(candidates, LAMBDA c : c.exact_price_match)
    IN  IF exact_matches # <<>> THEN Some(exact_matches[1].customer_name)
        ELSE IF candidates # <<>> THEN Some(candidates[1].customer_name)
        ELSE None

\* "prefer exact price matches", after an answer that names no candidate
FallbackUnparsed(candidates) ==
    LET exact_matches == SelectSeq(candidates, LAMBDA c : c.exact_price_match)
    IN  IF exact_matches # <<>> THEN Some(exact_matches[1].customer_name)
        ELSE None

Text_NONE == <<"N","O","N","E">>

\* the answer names candidate c
Recognised(ai_response, c) == Contains(Lower(ai_response), Lower(c.customer_name))

\* (mutant) the arbiter's answer is returned as it came, not the candidate's name
ai_choose_ReturnsAnswer(has_model, candidates, behaviour) ==
    IF ~has_model \/ candidates = <<>>
    THEN [choice |-> FallbackFirst(candidates), called |-> FALSE]
    ELSE IF behaviour.kind = "raise"
    THEN [choice |-> FallbackFirst(candidates), called |-> TRUE]
    ELSE LET ai_response == Strip(behaviour.text)
             named == SelectSeq(candidates, LAMBDA c : Recognised(ai_response, c))
         IN  [choice |-> IF Upper(ai_response) = Text_NONE THEN None
                         ELSE IF named # <<>> THEN Some(ai_response)
                         ELSE FallbackUnparsed(candidates),
              called |-> TRUE]

\* The arbiter's behaviour is [kind |-> "raise"] or [kind |-> "text", text |-> t].
\* Result: the chosen name (or None) and whether the arbiter was consulted.
ai_choose_best_match_with_price(has_model, candidates, behaviour) ==
    IF ~has_model \/ candidates = <<>>
    THEN [choice |-> FallbackFirst(candidates), called |-> FALSE]
    ELSE IF behaviour.kind = "raise"
    THEN [choice |-> FallbackFirst(candidates), called |-> TRUE]
    ELSE LET ai_response == Strip(behaviour.text)
             named == SelectSeq(candidates, LAMBDA c : Recognised(ai_response, c))
         IN  [choice |-> IF Upper(ai_response) = Text_NONE THEN None
                         ELSE IF named # <<>> THEN Some(named[1].customer_name)
                         ELSE FallbackUnparsed(candidates),
              called |-> TRUE]

\* (mutant) a non-match reported with full confidence
NoDecision_Confident(status) == [status |-> status, confidence |-> 10000]

NoDecision(status) == [status |-> status, confidence |-> 0]

NoTrace == [search_called |-> FALSE, arbiter_called |-> FALSE, vector_results |-> <<>>,
            all_candidates |-> <<>>, top_candidates |-> <<>>, ai_choice |-> None]

\* (mutant) the arbiter is given the whole ranked list
TopOfRanked_All(all_candidates) == all_candidates

\* all_candidates[:3]
TopOfRanked(all_candidates) == Take(all_candidates, TopCandidates)

\* find_best_customer_match from Step 1 on (the name is known to be non-empty).
\* Each step is an operator of the values the steps before it computed.
ResolveNamed(custs, has_model, extracted_name, extracted_price, behaviour) ==
    LET \* Step 5: the decision
        Step5(vector_results, all_candidates, top_candidates, ai, chosen) ==
            LET ai_choice == ai.choice
                searched == [NoTrace EXCEPT !.search_called = TRUE,
                                            !.vector_results = vector_results]
                trace == [searched EXCEPT !.arbiter_called = ai.called,
                                          !.all_candidates = all_candidates,
                                          !.top_candidates = top_candidates,
                                          !.ai_choice = ai_choice]
            IN  IF vector_results = <<>>
                THEN [decision |-> NoDecision("new_customer_detected")] @@ searched
                ELSE IF all_candidates = <<>>
                THEN [decision |-> NoDecision("new_customer_detected")] @@ searched
                ELSE IF ai_choice # None /\ Val(ai_choice) # <<>>
                THEN IF chosen # <<>> /\ chosen[1].combined_confidence >= AcceptThreshold
                     THEN [decision |->
                              [status |-> "match_found",
                               matched_customer_name |-> Val(ai_choice),
                               confidence_score |-> chosen[1].combined_confidence,
                               original_name |-> extracted_name,
                               price_match |-> chosen[1].exact_price_match,
                               extracted_price |-> extracted_price,
                               customer_price |-> chosen[1].customer_price]] @@ trace
                     ELSE IF chosen = <<>>
                     \* the rejection message subscripts chosen_candidate, which is None
                     THEN [decision |-> [status |-> "raised", error |-> "TypeError"]] @@ trace
                     ELSE [decision |-> NoDecision("new_customer_detected")] @@ trace
                ELSE [decision |-> NoDecision("new_customer_detected")] @@ trace
        \* the candidate the arbiter's choice names, <<>> if there is none
        Chosen(vector_results, all_candidates, top_candidates, ai) ==
            Step5(vector_results, all_candidates, top_candidates, ai,
                  IF ai.choice = None THEN <<>>
                  ELSE SelectSeq(top_candidates, LAMBDA c : c.customer_name = Val(ai.choice)))
        \* Step 4: the arbiter chooses among the top candidates
        Step4(vector_results, all_candidates, top_candidates) ==
            Chosen(vector_results, all_candidates, top_candidates,
                   ai_choose_best_match_with_price(has_model, top_candidates, behaviour))
        TopOf(vector_results, all_candidates) ==
            Step4(vector_results, all_candidates, TopOfRanked(all_candidates))
        \* Step 3: the two buckets, ranked
        Step3(vector_results, candidates) ==
            TopOf(vector_results,
                  RankCandidates(SelectSeq(candidates, LAMBDA c : c.exact_price_match),
                                 SelectSeq(candidates, LAMBDA c : ~c.exact_price_match)))
        \* Step 2: price validation of every search result
        Step2(vector_results) ==
            Step3(vector_results,
                  [i \in 1..Len(vector_results) |-> Candidate(vector_results[i], extracted_price)])
    IN  \* Step 1: similarity search
        Step2(search_similar_customers(custs, extracted_name, SearchTopK))

\* (mutant) the empty-name guard is missing
find_best_customer_match_NoGuard(custs, has_model, extracted_name, extracted_price, behaviour) ==
    ResolveNamed(custs, has_model, extracted_name, extracted_price, behaviour)

\* The decision returned by find_best_customer_match, together with a trace
\* of what the call did on the way.
find_best_customer_match(custs, has_model, extracted_name, extracted_price, behaviour) ==
    IF extracted_name = <<>>
    THEN [decision |-> NoDecision("no_name_provided")] @@ NoTrace
    ELSE ResolveNamed(custs, has_model, extracted_name, extracted_price, behaviour)

(***************************************************************************)
(* The catalog and the arbitrator as a state machine                       *)
(***************************************************************************)
MaxCustomers == 3

Name_Ali == <<"A","l","i">>
Name_AliBaba == <<"A","l","i"," ","B","a","b","a">>
Name_AhmadSdnBhd == <<"A","h","m","a","d"," ","S","d","n"," ","B","h","d">>
Name_AhmadBhd == <<"A","h","m","a","d"," ","B","h","d">>

CatalogNames == {Name_Ali, Name_AliBaba, Name_AhmadSdnBhd, Name_AhmadBhd}
CatalogPrices == {50 * Mills, 100 * Mills}
Formulas == {"WEIGHT_PRICE", "Lain Lain"}

Query_ali == <<"a","l","i">>
Query_ahmad == <<"a","h","m","a","d">>
Query_Mr == <<"M","r",".">>
QueryNames == {<<>>, Query_ali, Query_ahmad, Query_Mr}
QueryPrices == {None, Some(0), Some(-100 * Mills), Some(100 * Mills)}

Text_none == <<"n","o","n","e">>
Text_junk == <<"?","?">>
ArbiterBehaviours ==
    {[kind |-> "raise"]} \cup
    {[kind |-> "text", text |-> t] : t \in {Text_NONE, Text_none, Text_junk, Name_AliBaba, Name_AhmadBhd}}

Init ==
    /\ customers = <<>>
    /\ model \in BOOLEAN
    /\ op = "init"
    /\ arg = [none |-> TRUE]
    /\ ret = [none |-> TRUE]

AddCustomerVariant ==
    \E customer_name \in CatalogNames, price_per_ton \in CatalogPrices, formula \in Formulas :
        LET existing == get_customer_by_name(customers, customer_name)
        IN  /\ existing # None \/ Len(customers) < MaxCustomers
            /\ op' = "add_customer_variant"
            /\ arg' = [customer_name |-> customer_name, price_per_ton |-> price_per_ton,
                       formula |-> formula]
            /\ IF existing # None
               THEN /\ customers' = customers
                    /\ ret' = [result |-> FALSE]
               ELSE /\ customers' = Append(customers, NewCustomer(customer_name, price_per_ton, formula))
                    /\ ret' = [result |-> TRUE]
            /\ UNCHANGED model

Next == AddCustomerVariant

Spec == Init /\ [][Next]_vars

(***************************************************************************)
(* Specification of the arbitrator: the catalog is any catalog of at most  *)
(* MaxCustomers customers with distinct names, the arbiter model is        *)
(* present or not, and the one action resolves one extracted name and      *)
(* price against it under one behaviour of the arbiter.                    *)
(***************************************************************************)
RECURSIVE DistinctNames(_)
DistinctNames(custs) ==
    \/ custs = <<>>
    \/ /\ \A i \in 2..Len(custs) : custs[i].name # custs[1].name
       /\ DistinctNames(Tail(custs))

CatalogEntries ==
    {NewCustomer(n, p, "WEIGHT_PRICE") : n \in CatalogNames, p \in CatalogPrices}

Catalogs == {c \in SeqsUpTo(CatalogEntries, MaxCustomers) : DistinctNames(c)}

InitResolve ==
    /\ customers \in Catalogs
    /\ model \in BOOLEAN
    /\ op = "input"
    /\ arg \in [extracted_name : QueryNames, extracted_price : QueryPrices,
                 behaviour : IF model THEN ArbiterBehaviours ELSE {[kind |-> "unavailable"]}]
    /\ ret = [none |-> TRUE]

FindBestCustomerMatch ==
    /\ op = "input"
    /\ op' = "find_best_customer_match"
    /\ ret' = find_best_customer_match(customers, model, arg.extracted_name,
                                       arg.extracted_price, arg.behaviour)
    /\ UNCHANGED <<customers, model, arg>>

NextResolve == FindBestCustomerMatch

SpecResolve == InitResolve /\ [][NextResolve]_vars

(***************************************************************************)
(* Properties of the arbitrator (SpecResolve)                              *)
(***************************************************************************)
Resolved == op = "find_best_customer_match"

StatusSet == {"match_found", "new_customer_detected", "no_name_provided"}

\* C1: in the ranked candidate list every exact-price candidate is placed
\* before every name-only candidate, whatever the similarity scores are.
C1_ExactPriceFirst ==
    Resolved =>
        \A i, j \in 1..Len(ret.all_candidates) :
            (ret.all_candidates[i].exact_price_match /\ ~ret.all_candidates[j].exact_price_match)
                => i < j

\* an exact-price candidate ranked above a name-only candidate of higher similarity
C1_Witness ==
    /\ Resolved
    /\ \E i, j \in 1..Len(ret.all_candidates) :
          /\ i < j
          /\ ret.all_candidates[i].exact_price_match
          /\ ~ret.all_candidates[j].exact_price_match
          /\ ret.all_candidates[i].similarity_score < ret.all_candidates[j].similarity_score

\* the arbiter is unavailable, raised, or answered neither "NONE" nor
\* anything that names one of the top candidates
ArbiterFailed ==
    \/ ~model
    \/ arg.behaviour.kind = "raise"
    \/ /\ arg.behaviour.kind = "text"
       /\ Upper(Strip(arg.behaviour.text)) # Text_NONE
       /\ \A i \in 1..Len(ret.top_candidates) :
             ~Contains(Lower(Strip(arg.behaviour.text)), Lower(ret.top_candidates[i].customer_name))

\* the deterministic fallback of the specification: the highest-ranked
\* exact-price candidate if there is one, else the top-ranked candidate
DeterministicFallback(cands) ==
    IF \E i \in 1..Len(cands) : cands[i].exact_price_match
    THEN cands[CHOOSE i \in 1..Len(cands) :
                   /\ cands[i].exact_price_match
                   /\ \A j \in 1..(i - 1) : ~cands[j].exact_price_match].customer_name
    ELSE cands[1].customer_name

\* C2: whenever the arbiter is unavailable, raises, or returns an answer
\* that is neither "NONE" nor a recognisable candidate name, the final
\* choice among the top candidates is the deterministic fallback.
C2_FallbackInAllFailureCases ==
    (Resolved /\ ret.top_candidates # <<>> /\ ArbiterFailed)
        => ret.ai_choice = Some(DeterministicFallback(ret.top_candidates))

\* C3: resolve never raises: whatever the name, the price, the catalog and
\* the arbiter's behaviour, the decision's status is one of match_found,
\* new_customer_detected, no_name_provided.
C3_NeverRaises ==
    Resolved => ret.decision.status \in StatusSet

\* the arbiter raised and the call still returned new_customer_detected
C3_Witness ==
    /\ Resolved
    /\ ret.arbiter_called
    /\ arg.behaviour.kind = "raise"
    /\ arg.extracted_price # None /\ Val(arg.extracted_price) > 0
    /\ ret.decision.status = "new_customer_detected"

\* C4: with an empty catalog, resolve of a non-empty name returns
\* new_customer_detected with confidence 0 and does not consult the arbiter.
C4_EmptyCatalog ==
    (Resolved /\ customers = <<>> /\ arg.extracted_name # <<>>)
        => /\ ret.decision = [status |-> "new_customer_detected", confidence |-> 0]
           /\ ~ret.arbiter_called

\* a non-empty name resolved against the empty catalog with the arbiter present
C4_Witness ==
    /\ Resolved
    /\ customers = <<>>
    /\ arg.extracted_name # <<>>
    /\ model
    /\ ret.search_called

\* C5: with an empty extracted name, resolve returns no_name_provided with
\* confidence 0, and neither the similarity search nor the arbiter is invoked.
C5_EmptyName ==
    (Resolved /\ arg.extracted_name = <<>>)
        => /\ ret.decision = [status |-> "no_name_provided", confidence |-> 0]
           /\ ~ret.search_called
           /\ ~ret.arbiter_called

\* the empty name resolved against a non-empty catalog with the arbiter present
C5_Witness ==
    /\ Resolved
    /\ arg.extracted_name = <<>>
    /\ customers # <<>>
    /\ model
    /\ arg.extracted_price # None /\ Val(arg.extracted_price) > 0

(***************************************************************************)
(* Properties of the catalog (Spec)                                        *)
(***************************************************************************)
\* C10: add_customer_variant returns false and leaves the catalog unchanged
\* if a customer with exactly that name is in the catalog; otherwise it
\* returns true and the catalog is the old one plus exactly one new entry
\* with the given name, price and formula, appended at the end.
C10_Append ==
    [][ op' = "add_customer_variant" =>
          IF \E i \in 1..Len(customers) : customers[i].name = arg'.customer_name
          THEN /\ ret'.result = FALSE
               /\ customers' = customers
          ELSE /\ ret'.result = TRUE
               /\ customers' = customers \o
                     << [name |-> arg'.customer_name,
                         price_per_ton |-> arg'.price_per_ton,
                         formula |-> arg'.formula,
                         company_amount |-> None,
                         worker_amount |-> None] >> ]_vars

\* an append refused for a name that an earlier append put in the catalog,
\* while a customer with the same normalized name was accepted
C10_Witness ==
    /\ op = "add_customer_variant"
    /\ ret.result = FALSE
    /\ \E i, j \in 1..Len(customers) :
          /\ i < j
          /\ customers[i].name # customers[j].name
          /\ clean_name_for_matching(customers[i].name) = clean_name_for_matching(customers[j].name)

(***************************************************************************)
(* InvoiceProcessorClient: batch processing                                *)
(*                                                                         *)
(* A field of an extraction record is Missing, Null, Str(s), Num(n), or    *)
(* Bad for a string that float() rejects.                                  *)
(***************************************************************************)
\* One record of process_single_image's loop: [kind |-> "raised"],
\* [kind |-> "skipped"] or [kind |-> "entry", result |-> final_result]
ProcessRecord(custs, has_model, behaviour, source_file, i, record) ==
    IF record.customer_name.kind \notin {"missing", "str"}
    THEN [kind |-> "raised"]         \* .strip() of a value that is not a string
    ELSE
    LET customer_name == IF record.customer_name.kind = "missing" THEN <<>>
                         ELSE Strip(record.customer_name.v)
    IN  IF Truthy(record.price_per_ton) /\ record.price_per_ton.kind # "num"
        THEN [kind |-> "raised"]     \* float() of a non-numeric string
        ELSE
        LET price_per_ton == IF Truthy(record.price_per_ton) THEN record.price_per_ton.v ELSE 0
            Merged(match) ==
                LET final_result == [source_file |-> source_file, record_index |-> i]
                                        @@ match.decision @@ record
                IN  IF match.decision.status = "raised" THEN [kind |-> "raised"]
                    ELSE [kind |-> "entry", result |-> final_result]
        IN  IF customer_name = <<>> THEN [kind |-> "skipped"]
            ELSE Merged(find_best_customer_match(custs, has_model, customer_name,
                                                 Some(price_per_ton), behaviour))

RECURSIVE Entries(_)
Entries(outcomes) ==
    IF outcomes = <<>> THEN <<>>
    ELSE (IF Head(outcomes).kind = "entry" THEN <<Head(outcomes).result>> ELSE <<>>)
             \o Entries(Tail(outcomes))

\* (mutant) an exception in one record abandons the whole image
process_single_image_NoRecordGuard(custs, has_model, behaviour, image) ==
    IF image.ocr.kind = "raise" THEN <<>>
    ELSE LET outcomes == [i \in 1..Len(image.ocr.records) |->
                             ProcessRecord(custs, has_model, behaviour, image.name, i,
                                           image.ocr.records[i])]
         IN  IF \E i \in 1..Len(outcomes) : outcomes[i].kind = "raised" THEN <<>>
             ELSE Entries(outcomes)

\* The list process_single_image returns for one image file.  The OCR step
\* either raises or returns a list of records.
process_single_image(custs, has_model, behaviour, image) ==
    IF image.ocr.kind = "raise" THEN <<>>
    ELSE IF image.ocr.records = <<>> THEN <<>>
    ELSE Entries([i \in 1..Len(image.ocr.records) |->
                     ProcessRecord(custs, has_model, behaviour, image.name, i,
                                   image.ocr.records[i])])

RECURSIVE ProcessImages(_, _, _, _)
ProcessImages(custs, has_model, behaviour, image_files) ==
    IF image_files = <<>> THEN <<>>
    ELSE process_single_image(custs, has_model, behaviour, Head(image_files))
             \o ProcessImages(custs, has_model, behaviour, Tail(image_files))

\* A folder is [exists |-> BOOLEAN, files |-> sequence of files]; a file is
\* [name, is_image, ocr], is_image telling whether its extension is one of
\* .jpg .jpeg .png .bmp .tiff.
process_images_folder(custs, has_model, behaviour, folder) ==
    IF ~folder.exists THEN [raised |-> "FileNotFoundError", records |-> <<>>]
    ELSE LET image_files == SelectSeq(folder.files, LAMBDA f : f.is_image)
         IN  IF image_files = <<>> THEN [raised |-> "ValueError", records |-> <<>>]
             ELSE [raised |-> "none",
                   records |-> ProcessImages(custs, has_model, behaviour, image_files)]

(***************************************************************************)
(* Specification of the batch processor: one call of process_images_folder *)
(* on a folder of at most MaxImages files, each image yielding an OCR      *)
(* failure or at most MaxRecords records.                                  *)
(***************************************************************************)
MaxImages == 2
MaxRecords == 2

Blank == <<" ">>

BatchRecords ==
    { [customer_name |-> Str(Blank), price_per_ton |-> Num(100 * Mills)],
      [customer_name |-> Str(Query_ali), price_per_ton |-> Num(100 * Mills)],
      [customer_name |-> Str(Query_ali), price_per_ton |-> Bad] }

OcrOutcomes ==
    {[kind |-> "raise"]} \cup
    {[kind |-> "records", records |-> rs] : rs \in SeqsUpTo(BatchRecords, MaxRecords)}

FileNames == <<"1.jpg", "2.png", "3.jpeg", "4.bmp", "5.tiff">>

FileContents ==
    {[is_image |-> FALSE, ocr |-> [kind |-> "none"]]} \cup
    {[is_image |-> TRUE, ocr |-> o] : o \in OcrOutcomes}

Folders ==
    {[exists |-> FALSE, files |-> <<>>]} \cup
    {[exists |-> TRUE,
      files |-> [i \in 1..Len(fs) |-> [name |-> FileNames[i]] @@ fs[i]]] :
        fs \in SeqsUpTo(FileContents, MaxImages)}

BatchCatalogs ==
    { <<NewCustomer(Name_Ali, 100 * Mills, "WEIGHT_PRICE")>> }

InitBatch ==
    /\ customers \in BatchCatalogs
    /\ model \in BOOLEAN
    /\ op = "input"
    /\ arg \in [folder : Folders,
                behaviour : IF model THEN {[kind |-> "raise"]} ELSE {[kind |-> "unavailable"]}]
    /\ ret = [none |-> TRUE]

ProcessImagesFolder ==
    /\ op = "input"
    /\ op' = "process_images_folder"
    /\ ret' = process_images_folder(customers, model, arg.behaviour, arg.folder)
    /\ UNCHANGED <<customers, model, arg>>

NextBatch == ProcessImagesFolder

SpecBatch == InitBatch /\ [][NextBatch]_vars

(***************************************************************************)
(* Properties of the batch processor (SpecBatch)                           *)
(***************************************************************************)
\* the record has a non-blank name and processing it raises nothing
SurvivingRecord(record) ==
    /\ record.customer_name.kind = "str"
    /\ Strip(record.customer_name.v) # <<>>
    /\ record.price_per_ton.kind # "bad"

RECURSIVE ExpectedKeysOfImage(_, _, _)
ExpectedKeysOfImage(name, records, i) ==
    IF i > Len(records) THEN <<>>
    ELSE (IF SurvivingRecord(records[i]) THEN << <<name, i, records[i].customer_name>> >> ELSE <<>>)
             \o ExpectedKeysOfImage(name, records, i + 1)

RECURSIVE ExpectedKeys(_)
ExpectedKeys(files) ==
    IF files = <<>> THEN <<>>
    ELSE (IF Head(files).is_image /\ Head(files).ocr.kind = "records"
          THEN ExpectedKeysOfImage(Head(files).name, Head(files).ocr.records, 1)
          ELSE <<>>) \o ExpectedKeys(Tail(files))

\* C9: process_images_folder raises only when the folder is missing or holds
\* no image file; otherwise it returns normally, whatever images fail in
\* OCR, extract nothing or hold records that raise, and its output has one
\* entry, in order, for every extracted record that has a non-blank name and
\* did not itself raise.
C9_BatchIsolation ==
    op = "process_images_folder" =>
        /\ (ret.raised # "none") <=>
               (~arg.folder.exists \/ \A i \in 1..Len(arg.folder.files) : ~arg.folder.files[i].is_image)
        /\ ret.raised = "none" =>
               [k \in 1..Len(ret.records) |->
                   <<ret.records[k].source_file, ret.records[k].record_index,
                     ret.records[k].customer_name>>]
                   = ExpectedKeys(arg.folder.files)

\* a run with an image whose OCR failed and an image holding a record that
\* raised next to one that survived
C9_Witness ==
    /\ op = "process_images_folder"
    /\ ret.raised = "none"
    /\ Len(ret.records) = 1
    /\ \E i \in 1..Len(arg.folder.files) : arg.folder.files[i].ocr.kind = "raise"
    /\ \E i \in 1..Len(arg.folder.files) :
          /\ arg.folder.files[i].ocr.kind = "records"
          /\ \E j, k \in 1..Len(arg.folder.files[i].ocr.records) :
                /\ ~SurvivingRecord(arg.folder.files[i].ocr.records[j])
                /\ arg.folder.files[i].ocr.records[j].price_per_ton.kind = "bad"
                /\ SurvivingRecord(arg.folder.files[i].ocr.records[k])

(***************************************************************************)
(* ExcelCreator: the rows of the main data sheet                           *)
(***************************************************************************)
DigitSeq == <<"0","1","2","3","4","5","6","7","8","9">>
DigitValue == [c \in Digits |-> (CHOOSE i \in 1..10 : DigitSeq[i] = c) - 1]

\* int() of the digits at the front of s
RECURSIVE LeadingNumber(_, _)
LeadingNumber(s, acc) ==
    IF s = <<>> \/ Head(s) \notin Digits THEN acc
    ELSE LeadingNumber(Tail(s), 10 * acc + DigitValue[Head(s)])

\* _get_invoice_no_value: the first run of digits in the invoice number, else 0
RECURSIVE get_invoice_no_value(_)
get_invoice_no_value(invoice_no) ==
    IF invoice_no = <<>> THEN 0
    ELSE IF Head(invoice_no) \in Digits THEN LeadingNumber(invoice_no, 0)
    ELSE get_invoice_no_value(Tail(invoice_no))

Kw_lain == <<"l","a","i","n">>

\* (mutant) the row is written with the invoice's weight as it is
MainSheetRow_NoOverride(invoice) ==
    [invoice_no |-> invoice.invoice_no,
     customer_name |-> invoice.customer_name,
     weight_kg |-> invoice.weight_kg,
     divide_by_1000 |-> ~invoice.is_count]

\* columns B, C, D of one data row, and whether its formulas divide by 1000
MainSheetRow(invoice) ==
    [invoice_no |-> invoice.invoice_no,
     customer_name |-> invoice.customer_name,
     weight_kg |-> IF invoice.weight_kg # 1 /\ Contains(Lower(invoice.customer_name), Kw_lain)
                   THEN 1 ELSE invoice.weight_kg,
     divide_by_1000 |-> ~invoice.is_count]

create_main_data_sheet(invoices) ==
    LET sorted_invoices ==
            \* sorted() is ascending and stable: order by negated key
            SortDescBy(invoices, [i \in 1..Len(invoices) |-> -get_invoice_no_value(invoices[i].invoice_no)])
    IN  [i \in 1..Len(sorted_invoices) |-> MainSheetRow(sorted_invoices[i])]

(***************************************************************************)
(* The /process-invoices service                                           *)
(***************************************************************************)
Name_Unknown == <<"U","n","k","n","o","w","n">>

\* int(float(x)) of a number in thousandths: truncation toward zero
IntOf(x) == IF x >= 0 THEN x \div Mills ELSE -((-x) \div Mills)

\* (mutant) the weight-based back-computation without the factor 1000
BackComputedWeight_NoFactor(total_amount, price_per_unit, is_count) ==
    total_amount \div price_per_unit

\* int(calculated_weight) of the fallback, for positive total and price
BackComputedWeight(total_amount, price_per_unit, is_count) ==
    IF is_count THEN total_amount \div price_per_unit
    ELSE (total_amount * 1000) \div price_per_unit

\* (mutant) the invoice always keeps the extracted name
FinalCustomerName_Original(matched_name, original_name) == original_name

\* "use original name if matched name is empty or invalid"
FinalCustomerName(matched_name, original_name) ==
    IF matched_name # <<>> /\ matched_name # original_name THEN matched_name ELSE original_name

\* One record of the conversion loop: the InvoiceData object it yields (or
\* None), and what it adds to new_customers and fuzzy_matches.
ConvertRecord(data) ==
    LET original_name == Strip(data.customer_name.v)
        matched_name == IF data.status = "match_found" THEN Strip(data.matched_customer_name) ELSE <<>>
        invoice_no == IF data.invoice_no.kind = "str" THEN Strip(data.invoice_no.v) ELSE <<>>
        is_count == data.is_count
        final_customer_name == FinalCustomerName(matched_name, original_name)
        new_customers == IF data.status = "new_customer_detected" THEN <<original_name>> ELSE <<>>
        fuzzy_matches == IF matched_name # <<>> /\ matched_name # original_name /\ original_name # <<>>
                         THEN << [original |-> original_name, matched |-> matched_name,
                                  confidence |-> data.confidence_score] >>
                         ELSE <<>>
        invalid == \/ data.weight_kg.kind = "bad"
                   \/ data.price_per_ton.kind = "bad"
                   \/ Truthy(data.total) /\ data.total.kind # "num"
        weight_read == IF data.weight_kg.kind = "num" THEN IntOf(data.weight_kg.v) ELSE 0
        price_per_unit == IF data.price_per_ton.kind = "num" THEN data.price_per_ton.v ELSE 0
        total_amount == IF Truthy(data.total) THEN data.total.v ELSE 0
        weight_kg == IF weight_read = 0 /\ total_amount > 0 /\ price_per_unit > 0
                     THEN BackComputedWeight(total_amount, price_per_unit, is_count)
                     ELSE weight_read
    IN  IF final_customer_name = <<>> \/ final_customer_name = Name_Unknown
        THEN [invoice |-> None, new_customers |-> <<>>, fuzzy_matches |-> <<>>]
        ELSE IF invalid
        THEN [invoice |-> None, new_customers |-> new_customers, fuzzy_matches |-> fuzzy_matches]
        ELSE [invoice |-> Some([invoice_no |-> invoice_no,
                                customer_name |-> final_customer_name,
                                weight_kg |-> weight_kg,
                                price_per_unit |-> price_per_unit,
                                total_amount |-> total_amount,
                                company_amount |-> None,
                                worker_amount |-> None,
                                source_file |-> data.source_file,
                                confidence |-> 95,
                                is_count |-> is_count]),
              new_customers |-> new_customers,
              fuzzy_matches |-> fuzzy_matches]

RECURSIVE ConvertAll(_)
ConvertAll(processed_data) ==
    IF processed_data = <<>>
    THEN [invoice_objects |-> <<>>, new_customers |-> <<>>, fuzzy_matches |-> <<>>]
    ELSE LET first == ConvertRecord(Head(processed_data))
             rest == ConvertAll(Tail(processed_data))
         IN  [invoice_objects |-> first.invoice \o rest.invoice_objects,
              new_customers |-> first.new_customers \o rest.new_customers,
              fuzzy_matches |-> first.fuzzy_matches \o rest.fuzzy_matches]

HTTPException(status_code) ==
    [kind |-> "HTTPException", status_code |-> status_code,
     invoice_objects |-> <<>>, report |-> <<>>]

\* (mutant) the report is written even when no invoice object was built
process_invoices_NoEmptyGuard(old_customers, has_model, behaviour, request) ==
    IF ~request.image_folder.exists
    THEN [response |-> HTTPException(404), customers |-> old_customers]
    ELSE IF ~request.excel_template.exists
    THEN [response |-> HTTPException(404), customers |-> old_customers]
    ELSE
    LET Respond(loaded, batch, converted) ==
            IF loaded.raised # "none"
            THEN [response |-> HTTPException(500), customers |-> loaded.customers]
            ELSE IF batch.raised # "none"
            THEN [response |-> HTTPException(500), customers |-> loaded.customers]
            ELSE IF batch.records = <<>>
            THEN [response |-> HTTPException(400), customers |-> loaded.customers]
            ELSE [response |->
                     [kind |-> "success",
                      total_processed |-> Len(converted.invoice_objects),
                      new_customers_added |-> converted.new_customers,
                      fuzzy_matches_found |-> converted.fuzzy_matches,
                      invoice_objects |-> converted.invoice_objects,
                      report |-> create_main_data_sheet(converted.invoice_objects)],
                  customers |-> loaded.customers]
        Convert(loaded, batch) == Respond(loaded, batch, ConvertAll(batch.records))
        Process(loaded) ==
            Convert(loaded, process_images_folder(loaded.customers, has_model, behaviour,
                                                  request.image_folder))
    IN  Process(load_from_excel(old_customers, request.excel_template))

\* The response of process_invoices and the catalog it leaves behind.  A
\* success carries, besides the response fields, the InvoiceData objects
\* handed to the report writer and the rows it wrote.
process_invoices(old_customers, has_model, behaviour, request) ==
    IF ~request.image_folder.exists
    THEN [response |-> HTTPException(404), customers |-> old_customers]
    ELSE IF ~request.excel_template.exists
    THEN [response |-> HTTPException(404), customers |-> old_customers]
    ELSE
    LET Respond(loaded, batch, converted) ==
            IF loaded.raised # "none"
            THEN [response |-> HTTPException(500), customers |-> loaded.customers]
            ELSE IF batch.raised # "none"
            THEN [response |-> HTTPException(500), customers |-> loaded.customers]
            ELSE IF batch.records = <<>>
            THEN [response |-> HTTPException(400), customers |-> loaded.customers]
            ELSE IF converted.invoice_objects = <<>>
            THEN [response |-> HTTPException(400), customers |-> loaded.customers]
            ELSE [response |->
                     [kind |-> "success",
                      total_processed |-> Len(converted.invoice_objects),
                      new_customers_added |-> converted.new_customers,
                      fuzzy_matches_found |-> converted.fuzzy_matches,
                      invoice_objects |-> converted.invoice_objects,
                      report |-> create_main_data_sheet(converted.invoice_objects)],
                  customers |-> loaded.customers]
        Convert(loaded, batch) == Respond(loaded, batch, ConvertAll(batch.records))
        Process(loaded) ==
            Convert(loaded, process_images_folder(loaded.customers, has_model, behaviour,
                                                  request.image_folder))
    IN  Process(load_from_excel(old_customers, request.excel_template))

(***************************************************************************)
(* Specification of the service: one request against a folder that is     *)
(* missing, empty, or holds one file with at most MaxApiRecords records,   *)
(* and a knowledge-base workbook.                                          *)
(***************************************************************************)
MaxApiRecords == 2

Query_lain == <<"l","a","i","n"," ","l","a","i","n">>
Name_LainLain == <<"L","a","i","n","-","l","a","i","n">>

InvoiceNumbers == << <<"7","0","2">>, <<"7","0","1">>, <<"7","0","3">> >>

\* extraction records without their invoice number
ApiRecordBodies ==
    { [customer_name |-> Str(Query_ali), price_per_ton |-> Num(20 * Mills),
       weight_kg |-> Num(0), total |-> Num(100 * Mills), is_count |-> TRUE],
      [customer_name |-> Str(Query_ali), price_per_ton |-> Num(20 * Mills),
       weight_kg |-> Num(0), total |-> Num(100 * Mills), is_count |-> FALSE],
      [customer_name |-> Str(Query_ahmad), price_per_ton |-> Num(100 * Mills),
       weight_kg |-> Num(500 * Mills + 500), total |-> Missing, is_count |-> FALSE],
      [customer_name |-> Str(Query_lain), price_per_ton |-> Num(50 * Mills),
       weight_kg |-> Num(500 * Mills), total |-> Num(50 * Mills), is_count |-> TRUE],
      [customer_name |-> Str(Query_lain), price_per_ton |-> Num(50 * Mills),
       weight_kg |-> Num(1 * Mills), total |-> Num(50 * Mills), is_count |-> TRUE],
      [customer_name |-> Str(Query_ali), price_per_ton |-> Num(20 * Mills),
       weight_kg |-> Bad, total |-> Missing, is_count |-> TRUE],
      [customer_name |-> Str(Blank), price_per_ton |-> Missing,
       weight_kg |-> Null, total |-> Missing, is_count |-> TRUE],
      [customer_name |-> Null, price_per_ton |-> Num(20 * Mills),
       weight_kg |-> Num(1 * Mills), total |-> Missing, is_count |-> FALSE] }

ApiOcrOutcomes ==
    {[kind |-> "raise"]} \cup
    {[kind |-> "records",
      records |-> [i \in 1..Len(rs) |-> [invoice_no |-> Str(InvoiceNumbers[i])] @@ rs[i]]] :
        rs \in SeqsUpTo(ApiRecordBodies, MaxApiRecords)}

ApiFileContents ==
    {[is_image |-> FALSE, ocr |-> [kind |-> "none"]]} \cup
    {[is_image |-> TRUE, ocr |-> o] : o \in ApiOcrOutcomes}

ApiFolders ==
    {[exists |-> FALSE, files |-> <<>>], [exists |-> TRUE, files |-> <<>>]} \cup
    {[exists |-> TRUE, files |-> <<[name |-> FileNames[1]] @@ c>>] : c \in ApiFileContents}

Hdr_name == Str(<<"C","u","s","t","o","m","e","r"," ","N","a","m","e">>)
Hdr_price == Str(<<"P","r","i","c","e"," ","p","e","r"," ","T","o","n">>)
Hdr_formula == Str(<<"F","o","r","m","u","l","a">>)
Hdr_company == Str(<<"C","o","m","p","a","n","y">>)
Hdr_worker == Str(<<"W","o","r","k","e","r">>)
Hdr_remarks == Str(<<"R","e","m","a","r","k","s">>)

StandardHeader == <<Hdr_name, Hdr_price, Hdr_formula, Hdr_company, Hdr_worker>>

Row_Ahmad == <<Str(Name_AhmadSdnBhd), Num(100 * Mills), Text("WEIGHT_PRICE"), Num(60 * Mills), Null>>
Row_Ali == <<Str(Name_Ali), Num(20 * Mills), Null, Null, Null>>
Row_Lain == <<Str(Name_LainLain), Num(50 * Mills), Text("Lain Lain"), Num(30 * Mills), Num(20 * Mills)>>
Row_NoName == <<Null, Num(50 * Mills), Null, Null, Null>>

Workbooks ==
    { [exists |-> FALSE, has_sheet |-> FALSE, header |-> <<>>, rows |-> <<>>],
      [exists |-> TRUE, has_sheet |-> FALSE, header |-> <<>>, rows |-> <<>>],
      [exists |-> TRUE, has_sheet |-> TRUE, header |-> <<Hdr_remarks>>, rows |-> << <<Str(Name_Ali)>> >>],
      [exists |-> TRUE, has_sheet |-> TRUE, header |-> StandardHeader, rows |-> <<Row_NoName>>],
      [exists |-> TRUE, has_sheet |-> TRUE, header |-> StandardHeader,
       rows |-> <<Row_Ahmad, Row_NoName, Row_Ali, Row_Lain>>],
      [exists |-> TRUE, has_sheet |-> TRUE, header |-> StandardHeader,
       rows |-> <<Row_Lain, Row_Ali>>] }

InitApi ==
    /\ customers \in {<<>>, <<NewCustomer(Name_AliBaba, 50 * Mills, "WEIGHT_PRICE")>>}
    /\ model \in BOOLEAN
    /\ op = "input"
    /\ arg \in [request : [image_folder : ApiFolders, excel_template : Workbooks],
                behaviour : IF model THEN {[kind |-> "raise"], [kind |-> "text", text |-> Text_NONE]}
                            ELSE {[kind |-> "unavailable"]}]
    /\ ret = [none |-> TRUE]

ProcessInvoices ==
    /\ op = "input"
    /\ op' = "process_invoices"
    /\ LET r == process_invoices(customers, model, arg.behaviour, arg.request)
       IN  /\ ret' = r.response
           /\ customers' = r.customers
    /\ UNCHANGED <<model, arg>>

NextApi == ProcessInvoices

SpecApi == InitApi /\ [][NextApi]_vars

(***************************************************************************)
(* Properties of the service (SpecApi)                                     *)
(***************************************************************************)
Served == op = "process_invoices"

\* the extraction records of the request, in processing order
RECURSIVE RequestRecords(_)
RequestRecords(files) ==
    IF files = <<>> THEN <<>>
    ELSE (IF Head(files).is_image /\ Head(files).ocr.kind = "records"
          THEN Head(files).ocr.records ELSE <<>>) \o RequestRecords(Tail(files))

\* record r is the back-computation example: weight 0, total 100, price 20
IsExample(r) ==
    /\ r.weight_kg = Num(0)
    /\ r.total = Num(100 * Mills)
    /\ r.price_per_ton = Num(20 * Mills)

\* the invoice object o was built from the extraction record r
BuiltFrom(o, r) == r.invoice_no = Str(o.invoice_no)

\* C7 as stated: the example record yields weight_kg = 5 when count-based
\* and weight_kg = 50 when weight-based.
C7_BackComputation_Original ==
    Served =>
        \A i \in 1..Len(ret.invoice_objects) :
            \A r \in Range(RequestRecords(arg.request.image_folder.files)) :
                (BuiltFrom(ret.invoice_objects[i], r) /\ IsExample(r))
                    => ret.invoice_objects[i].weight_kg = IF r.is_count THEN 5 ELSE 50

\* C7 (amended): with extracted weight 0, total = 100 and price = 20, a
\* count-based record yields weight_kg = 100/20 = 5 and a weight-based
\* record yields weight_kg = 100*1000/20 = 5000.
C7_BackComputation ==
    Served =>
        \A i \in 1..Len(ret.invoice_objects) :
            \A r \in Range(RequestRecords(arg.request.image_folder.files)) :
                (BuiltFrom(ret.invoice_objects[i], r) /\ IsExample(r))
                    => ret.invoice_objects[i].weight_kg = IF r.is_count THEN 5 ELSE 5000

\* a response built from the example record in both its forms
C7_Witness ==
    /\ Served
    /\ ret.kind = "success"
    /\ \E i, j \in 1..Len(ret.invoice_objects) :
          \E r, s \in Range(RequestRecords(arg.request.image_folder.files)) :
              /\ BuiltFrom(ret.invoice_objects[i], r) /\ IsExample(r) /\ r.is_count
              /\ BuiltFrom(ret.invoice_objects[j], s) /\ IsExample(s) /\ ~s.is_count

ContainsLain(name) == Contains(Lower(name), Kw_lain)

\* C8 as stated: the weight_kg field of the InvoiceData object handed to the
\* report writer is 1 for every invoice whose matched name contains "lain".
C8_LainForcesOne_Original ==
    Served =>
        \A i \in 1..Len(ret.invoice_objects) :
            ContainsLain(ret.invoice_objects[i].customer_name)
                => ret.invoice_objects[i].weight_kg = 1

\* C8 (amended): for every reconciled invoice whose customer name contains
\* "lain", the weight written for it to the main sheet of the report is 1,
\* whatever weight the extraction reported; the InvoiceData object handed
\* to the report writer keeps the extracted weight.
C8_LainForcesOne ==
    Served =>
        /\ Len(ret.report) = Len(ret.invoice_objects)
        /\ \A k \in 1..Len(ret.report) :
              ContainsLain(ret.report[k].customer_name) => ret.report[k].weight_kg = 1
        /\ \A i \in 1..Len(ret.invoice_objects) :
              \A r \in Range(RequestRecords(arg.request.image_folder.files)) :
                  (BuiltFrom(ret.invoice_objects[i], r) /\ r.weight_kg.kind = "num" /\ r.weight_kg.v # 0)
                      => ret.invoice_objects[i].weight_kg = IntOf(r.weight_kg.v)

\* an invoice matched to the catalog customer "Lain-lain" with an extracted
\* weight of 500, written to the report with weight 1
C8_Witness ==
    /\ Served
    /\ ret.kind = "success"
    /\ \E i \in 1..Len(ret.invoice_objects), k \in 1..Len(ret.report) :
          /\ ret.invoice_objects[i].customer_name = Name_LainLain
          /\ ret.invoice_objects[i].weight_kg = 500
          /\ ret.report[k].invoice_no = ret.invoice_objects[i].invoice_no
          /\ ret.report[k].weight_kg = 1

(***************************************************************************)
(* Specification of the normalizer alone: the input is any concatenation   *)
(* of at most MaxPieces name fragments, and the one action applies the     *)
(* normalizer to it and then to its own result.                            *)
(***************************************************************************)
MaxPieces == 3

NamePieces ==
    { <<"d","r","."," ">>, <<"m","r","."," ">>, <<"M","r",".">>,
      <<"a","l","i">>, <<"a","c","m","e">>,
      <<" ","b","h","d">>, <<" ","l","t","d">>, <<"!">>, <<FullwidthM>> }

NormInputs == {Concat(ps) : ps \in SeqsUpTo(NamePieces, MaxPieces)}

InitNorm ==
    /\ customers = <<>>
    /\ model = FALSE
    /\ op = "input"
    /\ arg \in [name : NormInputs]
    /\ ret = [none |-> TRUE]

CleanName ==
    /\ op = "input"
    /\ op' = "clean_name_for_matching"
    /\ LET once == clean_name_for_matching(arg.name)
       IN  ret' = [once |-> once, twice |-> clean_name_for_matching(once)]
    /\ UNCHANGED <<customers, model, arg>>

NextNorm == CleanName

SpecNorm == InitNorm /\ [][NextNorm]_vars

\* C6: the normalizer is idempotent: normalize(normalize(x)) = normalize(x)
\* for every input x, stacked honorifics and stacked suffixes included.
C6_Idempotent ==
    op = "clean_name_for_matching" => ret.twice = ret.once

(***************************************************************************)
(* Specification of the catalog load alone: one call of load_from_excel    *)
(* on a workbook whose sheet has one of a few header rows and at most      *)
(* MaxRows data rows.                                                      *)
(***************************************************************************)
MaxRows == 2

Row_NoPrice == <<Str(Name_AliBaba), Null, Null, Null, Null>>
Row_BadPrice == <<Str(Name_AhmadBhd), Str(Text_junk), Null, Null, Str(Text_junk)>>
Row_NegPrice == <<Str(Name_LainLain), Num(-(20 * Mills)), Null, Num(30 * Mills), Null>>

\* a row whose company and worker amounts do not add up to its price
Row_Split == <<Str(Name_Ali), Num(100 * Mills), Null, Num(60 * Mills), Num(30 * Mills)>>

LoadRows == {Row_Ahmad, Row_Ali, Row_NoName, Row_NoPrice, Row_BadPrice, Row_NegPrice, Row_Split}

\* a header with no price column, and one in which no cell is recognised
Header_NoPrice == <<Hdr_name, Hdr_remarks, Hdr_formula, Hdr_company, Hdr_worker>>
Header_None == <<Hdr_remarks, Null, Null, Null, Null>>

\* headers whose second cell holds only one of the two price keywords
Hdr_price_only == Str(<<"U","n","i","t"," ","P","r","i","c","e">>)
Hdr_ton_only == Str(<<"R","M","/","T","o","n">>)
Header_PriceOnly == <<Hdr_name, Hdr_price_only, Hdr_formula, Hdr_company, Hdr_worker>>
Header_TonOnly == <<Hdr_name, Hdr_ton_only, Hdr_formula, Hdr_company, Hdr_worker>>

LoadHeaders == {StandardHeader, Header_NoPrice, Header_None, Header_PriceOnly, Header_TonOnly}

LoadWorkbooks ==
    { [exists |-> FALSE, has_sheet |-> FALSE, header |-> <<>>, rows |-> <<>>],
      [exists |-> TRUE, has_sheet |-> FALSE, header |-> <<>>, rows |-> <<>>] } \cup
    { [exists |-> TRUE, has_sheet |-> TRUE, header |-> h, rows |-> rs] :
          h \in LoadHeaders, rs \in SeqsUpTo(LoadRows, MaxRows) }

InitLoad ==
    /\ customers \in {<<>>, <<NewCustomer(Name_AliBaba, 50 * Mills, "WEIGHT_PRICE")>>}
    /\ model \in BOOLEAN
    /\ op = "input"
    /\ arg \in [wb : LoadWorkbooks]
    /\ ret = [none |-> TRUE]

LoadFromExcel ==
    /\ op = "input"
    /\ op' = "load_from_excel"
    /\ LET r == load_from_excel(customers, arg.wb)
       IN  /\ ret' = [raised |-> r.raised]
           /\ customers' = r.customers
    /\ UNCHANGED <<model, arg>>

NextLoad == LoadFromExcel

SpecLoad == InitLoad /\ [][NextLoad]_vars

(***************************************************************************)
(* Properties of the catalog load (SpecLoad)                               *)
(***************************************************************************)
Loaded == op = "load_from_excel"

\* the row names a customer
NamedRow(wb, row) ==
    /\ ColumnOf(wb.header, "name") # 0
    /\ row[ColumnOf(wb.header, "name")].kind = "str"
    /\ Strip(row[ColumnOf(wb.header, "name")].v) # <<>>

\* the row names a customer and its price cell holds a number
WellFormedRow(wb, row) ==
    /\ NamedRow(wb, row)
    /\ ColumnOf(wb.header, "price_per_ton") # 0
    /\ row[ColumnOf(wb.header, "price_per_ton")].kind = "num"

\* C11: a data row whose price cell is missing or non-numeric produces no
\* catalog entry, so after a successful load every customer of the catalog
\* has a price above 0, and a load of a readable sheet fails only if no
\* valid row results.
C11_SkipsMalformedRows ==
    Loaded =>
        /\ ret.raised = "none" =>
              /\ \A i \in 1..Len(customers) : customers[i].price_per_ton > 0
              /\ Len(customers) =
                     Cardinality({k \in 1..Len(arg.wb.rows) : WellFormedRow(arg.wb, arg.wb.rows[k])})
        /\ (arg.wb.exists /\ arg.wb.has_sheet /\ arg.wb.header # Header_None) =>
              ((ret.raised # "none") <=>
                   \A k \in 1..Len(arg.wb.rows) : ~WellFormedRow(arg.wb, arg.wb.rows[k]))

(***************************************************************************)
(* Specification of the similarity search alone: one call of               *)
(* search_similar_customers(query, top_k) with top_k in 0..MaxTopK.        *)
(***************************************************************************)
MaxTopK == 2

InitSearch ==
    /\ customers \in Catalogs
    /\ model \in BOOLEAN
    /\ op = "input"
    /\ arg \in [query : QueryNames, top_k : 0..MaxTopK]
    /\ ret = [none |-> TRUE]

SearchSimilarCustomers ==
    /\ op = "input"
    /\ op' = "search_similar_customers"
    /\ ret' = [results |-> search_similar_customers(customers, arg.query, arg.top_k)]
    /\ UNCHANGED <<customers, model, arg>>

NextSearch == SearchSimilarCustomers

SpecSearch == InitSearch /\ [][NextSearch]_vars

(***************************************************************************)
(* Properties of the similarity search (SpecSearch)                        *)
(***************************************************************************)
Searched == op = "search_similar_customers"

\* the search result r carries the data of catalog customer c
ResultOf(r, c) ==
    /\ r.customer_name = c.name
    /\ r.price_per_ton = c.price_per_ton
    /\ r.formula = c.formula
    /\ r.company_amount = c.company_amount
    /\ r.worker_amount = c.worker_amount

\* C12: for every query and every k the search result is ordered by
\* non-increasing score, every score lies in [0,1] (0..100 percent), there
\* are at most k entries, every entry is a customer of the catalog, and the
\* result is empty when the catalog is empty.
C12_TopK ==
    Searched =>
        /\ \A i, j \in 1..Len(ret.results) :
              i < j => ret.results[i].confidence_score >= ret.results[j].confidence_score
        /\ \A i \in 1..Len(ret.results) : ret.results[i].confidence_score \in 0..100
        /\ Len(ret.results) <= arg.top_k
        /\ \A i \in 1..Len(ret.results) :
              \E k \in 1..Len(customers) : ResultOf(ret.results[i], customers[k])
        /\ customers = <<>> => ret.results = <<>>

\* a search that had to drop a customer and returned k >= 2 entries with
\* different scores
C12_Witness ==
    /\ Searched
    /\ arg.top_k >= 2
    /\ Len(customers) > arg.top_k
    /\ Len(ret.results) = arg.top_k
    /\ ret.results[1].confidence_score > ret.results[2].confidence_score
    /\ ret.results[2].confidence_score > 0

(***************************************************************************)
(* The vector index of the knowledge base.  The embedding backend is       *)
(* "available", "unavailable" (self.embeddings is None) or "failing"       *)
(* (building the index raises).                                            *)
(***************************************************************************)
EmbeddingBackends == {"available", "unavailable", "failing"}

\* self.vector_store after create_vector_database: None or Some("chroma")
create_vector_database(embeddings, custs, old_vector_store) ==
    IF embeddings = "unavailable" \/ custs = <<>> THEN old_vector_store
    ELSE IF embeddings = "failing" THEN None
    ELSE Some("chroma")

\* a knowledge base holding the catalog custs, its index built once
KnowledgeBase(embeddings, custs) ==
    [customers |-> custs, vector_store |-> create_vector_database(embeddings, custs, None)]

\* (mutant) the search goes through the vector index, as vector_search_customers does
MatchWithKb_VectorSearch(kb, has_model, extracted_name, extracted_price, behaviour) ==
    IF kb.vector_store = None /\ extracted_name # <<>>
    THEN NoDecision("new_customer_detected")
    ELSE find_best_customer_match(kb.customers, has_model, extracted_name,
                                  extracted_price, behaviour).decision

\* the decision of find_best_customer_match of a client whose kb_manager is kb
MatchWithKb(kb, has_model, extracted_name, extracted_price, behaviour) ==
    find_best_customer_match(kb.customers, has_model, extracted_name,
                             extracted_price, behaviour).decision

(***************************************************************************)
(* Specification of a resolve on a knowledge base whose index was built    *)
(* with one of the embedding backends.                                     *)
(***************************************************************************)
IndexCatalogs ==
    { <<>>,
      <<NewCustomer(Name_Ali, 100 * Mills, "WEIGHT_PRICE")>>,
      <<NewCustomer(Name_AhmadSdnBhd, 100 * Mills, "WEIGHT_PRICE"),
        NewCustomer(Name_AliBaba, 50 * Mills, "WEIGHT_PRICE")>> }

InitIndex ==
    /\ customers \in IndexCatalogs
    /\ model \in BOOLEAN
    /\ op = "input"
    /\ arg \in [embeddings : EmbeddingBackends,
                extracted_name : QueryNames, extracted_price : {None, Some(100 * Mills)},
                behaviour : IF model THEN {[kind |-> "raise"], [kind |-> "text", text |-> Text_NONE],
                                           [kind |-> "text", text |-> Name_AliBaba]}
                            ELSE {[kind |-> "unavailable"]}]
    /\ ret = [none |-> TRUE]

MatchOnKnowledgeBase ==
    /\ op = "input"
    /\ op' = "match_on_knowledge_base"
    /\ LET Result(kb) ==
               [vector_store |-> kb.vector_store,
                decision |-> MatchWithKb(kb, model, arg.extracted_name, arg.extracted_price,
                                         arg.behaviour)]
       IN  ret' = Result(KnowledgeBase(arg.embeddings, customers))
    /\ UNCHANGED <<customers, model, arg>>

NextIndex == MatchOnKnowledgeBase

SpecIndex == InitIndex /\ [][NextIndex]_vars

FatalError(request) ==
    \/ ~request.image_folder.exists
    \/ ~request.excel_template.exists
    \/ load_from_excel(<<>>, request.excel_template).raised # "none"
    \/ \A i \in 1..Len(request.image_folder.files) : ~request.image_folder.files[i].is_image

\* C14: every fatal error is answered with a "not found" (404) or a "bad
\* request" (400) response, never with a response of another kind.
C14_FatalErrorsTranslated ==
    (Served /\ FatalError(arg.request)) =>
        /\ ret.kind = "HTTPException"
        /\ ret.status_code \in {404, 400}

\* C15: a success response (the one that carries the report) is returned
\* only if at least one InvoiceData object was built; otherwise no report
\* is written and the response is an error.
C15_ReportOnlyWithInvoices ==
    Served =>
        /\ ret.kind = "success" =>
              /\ Len(ret.invoice_objects) >= 1
              /\ Len(ret.report) = Len(ret.invoice_objects)
              /\ ret.total_processed = Len(ret.invoice_objects)
        /\ ret.kind # "success" =>
              /\ ret.kind = "HTTPException"
              /\ ret.report = <<>>

\* a request whose only extracted record was reconciled by the batch but
\* rejected by the conversion (its weight is not a number): answered 400
C15_Witness ==
    /\ Served
    /\ ret.kind = "HTTPException"
    /\ ret.status_code = 400
    /\ ret.report = <<>>
    /\ Len(RequestRecords(arg.request.image_folder.files)) = 1
    /\ \E r \in Range(RequestRecords(arg.request.image_folder.files)) :
          r.customer_name = Str(Query_ali) /\ r.weight_kg = Bad

(***************************************************************************)
(* The value Excel computes for column F ("Total Bills") of a data row:    *)
(* =D*E or =D*E/1000, E being looked up by customer name (VLOOKUP, exact   *)
(* match, letter case ignored) in column 2 of the price sheet, which       *)
(* lists the catalog.  None stands for #N/A; a value is the fraction       *)
(* numerator/denominator of an amount in thousandths.                      *)
(***************************************************************************)
\* (mutant) the weight-based formula without /1000
TotalBills_NoDivide(row, custs) ==
    LET hits == SelectSeq(custs, LAMBDA c : Lower(c.name) = Lower(row.customer_name))
    IN  IF hits = <<>> THEN None
        ELSE Some([numerator |-> row.weight_kg * hits[1].price_per_ton, denominator |-> 1])

TotalBills(row, custs) ==
    LET hits == SelectSeq(custs, LAMBDA c : Lower(c.name) = Lower(row.customer_name))
    IN  IF hits = <<>> THEN None
        ELSE Some([numerator |-> row.weight_kg * hits[1].price_per_ton,
                   denominator |-> IF row.divide_by_1000 THEN 1000 ELSE 1])

(***************************************************************************)
(* Specification of the end-to-end scenario: a request against the catalog *)
(* of the single customer "Ahmad Sdn Bhd" (price 100, WEIGHT_PRICE) and a  *)
(* folder of one image holding one record.                                 *)
(***************************************************************************)
ScenarioWorkbook ==
    [exists |-> TRUE, has_sheet |-> TRUE, header |-> StandardHeader,
     rows |-> << <<Str(Name_AhmadSdnBhd), Num(100 * Mills), Text("WEIGHT_PRICE"), Null, Null>> >>]

ScenarioRecords ==
    { [invoice_no |-> Str(InvoiceNumbers[1]), customer_name |-> Str(n), price_per_ton |-> p,
       weight_kg |-> w, total |-> Missing, is_count |-> c] :
          n \in {Query_ahmad, Name_AhmadSdnBhd},
          p \in {Num(100 * Mills), Num(50 * Mills), Missing},
          w \in {Num(500 * Mills), Num(0)},
          c \in BOOLEAN }

ScenarioFolders ==
    { [exists |-> TRUE,
       files |-> << [name |-> FileNames[1], is_image |-> TRUE,
                     ocr |-> [kind |-> "records", records |-> <<r>>]] >>] : r \in ScenarioRecords }

InitScenario ==
    /\ customers \in {<<>>, <<NewCustomer(Name_AliBaba, 50 * Mills, "WEIGHT_PRICE")>>}
    /\ model \in BOOLEAN
    /\ op = "input"
    /\ arg \in [request : [image_folder : ScenarioFolders, excel_template : {ScenarioWorkbook}],
                behaviour : IF model THEN ArbiterBehaviours ELSE {[kind |-> "unavailable"]}]
    /\ ret = [none |-> TRUE]

SpecScenario == InitScenario /\ [][NextApi]_vars

(***************************************************************************)
(* Properties of the end-to-end scenario (SpecScenario)                    *)
(***************************************************************************)
\* the extraction record of the scenario
ScenarioRecord ==
    [invoice_no |-> Str(InvoiceNumbers[1]), customer_name |-> Str(Query_ahmad),
     price_per_ton |-> Num(100 * Mills), weight_kg |-> Num(500 * Mills), total |-> Missing,
     is_count |-> FALSE]

IsScenario == RequestRecords(arg.request.image_folder.files) = <<ScenarioRecord>>

\* the reconciled records of the request, against the catalog as loaded
Reconciled == process_images_folder(customers, model, arg.behaviour, arg.request.image_folder).records

\* the arbiter answers NONE, in any letter case
AnswersNone == arg.behaviour.kind = "text" /\ Upper(Strip(arg.behaviour.text)) = Text_NONE

\* C16 as stated: the scenario ends in match_found with the canonical name
\* and price_match, and a reconciled invoice named "Ahmad Sdn Bhd" whose
\* total amount is 50.
C16_Scenario_Original ==
    (Served /\ IsScenario) =>
        /\ Len(Reconciled) = 1
        /\ Reconciled[1].status = "match_found"
        /\ Reconciled[1].matched_customer_name = Name_AhmadSdnBhd
        /\ Reconciled[1].price_match
        /\ ret.kind = "success"
        /\ Len(ret.invoice_objects) = 1
        /\ ret.invoice_objects[1].customer_name = Name_AhmadSdnBhd
        /\ ret.invoice_objects[1].total_amount = 50 * Mills

\* C16 (amended): unless the arbiter answers NONE, the scenario ends in
\* match_found with matched_customer_name "Ahmad Sdn Bhd" and price_match,
\* and in one reconciled invoice named "Ahmad Sdn Bhd" with weight 500 and
\* total_amount 0 (the record carries no total), whose report row computes
\* Total Bills = 500*100/1000 = 50.  If the arbiter answers NONE the record
\* is new_customer_detected and the invoice keeps the name "ahmad".
C16_Scenario ==
    (Served /\ IsScenario) =>
        /\ Len(Reconciled) = 1
        /\ ret.kind = "success"
        /\ Len(ret.invoice_objects) = 1
        /\ Len(ret.report) = 1
        /\ ret.invoice_objects[1].weight_kg = 500
        /\ ret.invoice_objects[1].total_amount = 0
        /\ ~AnswersNone =>
              /\ Reconciled[1].status = "match_found"
              /\ Reconciled[1].matched_customer_name = Name_AhmadSdnBhd
              /\ Reconciled[1].price_match
              /\ ret.invoice_objects[1].customer_name = Name_AhmadSdnBhd
              /\ TotalBills(ret.report[1], customers) # None
              /\ Val(TotalBills(ret.report[1], customers)).numerator
                     = 50 * Mills * Val(TotalBills(ret.report[1], customers)).denominator
        /\ AnswersNone =>
              /\ Reconciled[1].status = "new_customer_detected"
              /\ ret.invoice_objects[1].customer_name = Query_ahmad

\* the scenario served with an arbiter that failed
C16_Witness ==
    /\ Served
    /\ IsScenario
    /\ arg.behaviour.kind = "raise"
    /\ ret.kind = "success"
    /\ ret.fuzzy_matches_found =
           << [original |-> Query_ahmad, matched |-> Name_AhmadSdnBhd, confidence |-> 9500] >>

\* C17: a candidate of similarity s has combined confidence exactly 0.95*s
\* when its price matches exactly and exactly 0.7*s otherwise; a name-only
\* candidate is in the final candidate list iff its combined confidence is
\* strictly greater than 0.6, an exact-price candidate always is.
C17_ConfidenceAndFilter ==
    (Resolved /\ ret.search_called) =>
        /\ \A i \in 1..Len(ret.all_candidates) :
              ret.all_candidates[i].combined_confidence =
                  IF ret.all_candidates[i].exact_price_match
                  THEN 95 * ret.all_candidates[i].similarity_score
                  ELSE 70 * ret.all_candidates[i].similarity_score
        /\ \A k \in 1..Len(ret.vector_results) :
              LET InList(c) ==
                      /\ c.combined_confidence =
                             IF c.exact_price_match THEN 95 * c.similarity_score
                             ELSE 70 * c.similarity_score
                      /\ (\E i \in 1..Len(ret.all_candidates) : ret.all_candidates[i] = c)
                            <=> (c.exact_price_match \/ c.combined_confidence > 6000)
              IN  InList(Candidate(ret.vector_results[k], arg.extracted_price))

\* an exact-price candidate below 0.6 kept, a name-only candidate at or
\* below 0.6 dropped, and a name-only candidate above 0.6 kept, in one call
C17_Witness ==
    /\ Resolved
    /\ \E i \in 1..Len(ret.all_candidates) :
          /\ ret.all_candidates[i].exact_price_match
          /\ ret.all_candidates[i].combined_confidence < 6000
    /\ \E i \in 1..Len(ret.all_candidates) :
          /\ ~ret.all_candidates[i].exact_price_match
          /\ ret.all_candidates[i].combined_confidence > 6000
    /\ \E k \in 1..Len(ret.vector_results) :
          /\ ~ExactPriceMatch(arg.extracted_price, ret.vector_results[k].price_per_ton)
          /\ \A i \in 1..Len(ret.all_candidates) :
                ret.all_candidates[i].customer_name # ret.vector_results[k].customer_name

(***************************************************************************)
(* Specification of the price validation: the arbitrator on catalogs of    *)
(* at most MaxPricedCustomers customers whose prices are zero, negative or *)
(* within a few thousandths of the extracted price.                        *)
(***************************************************************************)
MaxPricedCustomers == 2

PricedCatalogPrices == {0, -100 * Mills, 100 * Mills + 10, 100 * Mills + 15}
PricedQueryPrices == {None, Some(0), Some(-100 * Mills), Some(100 * Mills + 5)}

PricedCatalogs ==
    {c \in SeqsUpTo({NewCustomer(n, p, "WEIGHT_PRICE") :
                        n \in {Name_Ali, Name_AliBaba}, p \in PricedCatalogPrices},
                    MaxPricedCustomers) : DistinctNames(c)}

InitPrice ==
    /\ customers \in PricedCatalogs
    /\ model \in BOOLEAN
    /\ op = "input"
    /\ arg \in [extracted_name : {Query_ali}, extracted_price : PricedQueryPrices,
                 behaviour : IF model THEN ArbiterBehaviours ELSE {[kind |-> "unavailable"]}]
    /\ ret = [none |-> TRUE]

SpecPrice == InitPrice /\ [][NextResolve]_vars

(***************************************************************************)
(* Properties of the price validation (SpecPrice)                          *)
(***************************************************************************)
\* C18: a candidate is marked exact_price_match iff the extracted price is
\* present and > 0, the catalog price is > 0 and the two differ by less
\* than 0.01; the price_match flag of a match_found decision is the
\* exact_price_match flag of the chosen candidate.
C18_ExactPriceFlag ==
    (Resolved /\ ret.search_called) =>
        /\ \A k \in 1..Len(ret.vector_results) :
              LET Marked(c) ==
                      c.exact_price_match <=>
                          /\ arg.extracted_price # None
                          /\ Val(arg.extracted_price) > 0
                          /\ ret.vector_results[k].price_per_ton > 0
                          /\ Val(arg.extracted_price) - ret.vector_results[k].price_per_ton < 10
                          /\ ret.vector_results[k].price_per_ton - Val(arg.extracted_price) < 10
              IN  Marked(Candidate(ret.vector_results[k], arg.extracted_price))
        /\ \A i \in 1..Len(ret.all_candidates) :
              \E k \in 1..Len(ret.vector_results) :
                  ret.all_candidates[i] = Candidate(ret.vector_results[k], arg.extracted_price)
        /\ ret.decision.status = "match_found" =>
              \E i \in 1..Len(ret.top_candidates) :
                  /\ ret.top_candidates[i].customer_name = ret.decision.matched_customer_name
                  /\ \A j \in 1..(i - 1) :
                        ret.top_candidates[j].customer_name # ret.decision.matched_customer_name
                  /\ ret.decision.price_match = ret.top_candidates[i].exact_price_match

\* a match on a price 0.005 away from the extracted one, beside a candidate
\* whose price is 0.01 away
C18_Witness ==
    /\ Resolved
    /\ arg.extracted_price = Some(100 * Mills + 5)
    /\ ret.decision.status = "match_found"
    /\ ret.decision.price_match
    /\ ret.decision.customer_price = 100 * Mills + 10
    /\ \E k \in 1..Len(ret.vector_results) : ret.vector_results[k].price_per_ton = 100 * Mills + 15

(***************************************************************************)
(* Specification of the ranking: the arbitrator on catalogs of at most     *)
(* MaxRankedCustomers customers whose names all clean to different texts,  *)
(* so that the ranked list can be longer than the top candidates.          *)
(***************************************************************************)
MaxRankedCustomers == 4

RankedCatalogs ==
    {c \in SeqsUpTo({NewCustomer(n, p, "WEIGHT_PRICE") :
                        n \in {Name_Ali, Name_AliBaba, Name_AhmadBhd, Name_LainLain},
                        p \in CatalogPrices},
                    MaxRankedCustomers) : DistinctNames(c)}

InitRank ==
    /\ customers \in RankedCatalogs
    /\ model \in BOOLEAN
    /\ op = "input"
    /\ arg \in [extracted_name : {Query_ahmad}, extracted_price : {None, Some(100 * Mills)},
                 behaviour : IF model THEN ArbiterBehaviours ELSE {[kind |-> "unavailable"]}]
    /\ ret = [none |-> TRUE]

SpecRank == InitRank /\ [][NextResolve]_vars

(***************************************************************************)
(* Properties of the ranking (SpecRank)                                    *)
(***************************************************************************)
\* the positions of the ranked list that are among its top 3
TopThree == {i \in 1..Len(ret.all_candidates) : i <= 3}

\* the position of the candidate the final choice selects: the first of the
\* top 3 that carries the chosen name
Selected(i) ==
    /\ i \in TopThree
    /\ ret.ai_choice # None
    /\ ret.all_candidates[i].customer_name = Val(ret.ai_choice)
    /\ \A j \in 1..(i - 1) : ret.all_candidates[j].customer_name # Val(ret.ai_choice)

\* C19: match_found is returned only for a candidate among the top 3 of the
\* ranked list whose combined confidence is >= 0.5; when the arbiter or the
\* fallback selects a candidate below 0.5 (which only an exact-price
\* candidate can be), or selects none, the result is new_customer_detected
\* with confidence 0, whatever the other candidates are.
C19_TopThreeAndFloor ==
    (Resolved /\ ret.all_candidates # <<>>) =>
        /\ ret.decision.status = "match_found" =>
              \E i \in TopThree :
                  /\ Selected(i)
                  /\ ret.decision.matched_customer_name = ret.all_candidates[i].customer_name
                  /\ ret.decision.confidence_score = ret.all_candidates[i].combined_confidence
                  /\ ret.all_candidates[i].combined_confidence >= 5000
        /\ \A i \in 1..Len(ret.all_candidates) :
              ret.all_candidates[i].combined_confidence < 5000
                  => ret.all_candidates[i].exact_price_match
        /\ (\/ ret.ai_choice = None
            \/ \E i \in TopThree :
                  Selected(i) /\ ret.all_candidates[i].combined_confidence < 5000)
              => ret.decision = [status |-> "new_customer_detected", confidence |-> 0]

\* the arbiter names the fourth-ranked candidate, of confidence 0.7; the
\* fallback selects the first exact-price candidate, which is below 0.5
C19_Witness ==
    /\ Resolved
    /\ Len(ret.all_candidates) = 4
    /\ arg.behaviour = [kind |-> "text", text |-> Name_AhmadBhd]
    /\ ret.all_candidates[4].customer_name = Name_AhmadBhd
    /\ ret.all_candidates[4].combined_confidence = 7000
    /\ Selected(1)
    /\ ret.all_candidates[1].combined_confidence < 5000
    /\ ret.decision.status = "new_customer_detected"

(***************************************************************************)
(* Specification of the record reconciler: one call of                     *)
(* process_single_image on an image of at most MaxNamedRecords records     *)
(* whose names are blank, only an honorific, only a company suffix, or a   *)
(* customer's name.                                                        *)
(***************************************************************************)
MaxNamedRecords == 2

Name_SdnBhd == <<"S","d","n"," ","B","h","d">>

NamedRecords ==
    { [customer_name |-> Str(n), price_per_ton |-> p] :
          n \in {Blank, Query_Mr, Name_SdnBhd, Query_ali},
          p \in {Missing, Num(100 * Mills)} }

NamedCatalogs ==
    { <<>>,
      <<NewCustomer(Name_Ali, 100 * Mills, "WEIGHT_PRICE")>>,
      <<NewCustomer(Name_Ali, 50 * Mills, "WEIGHT_PRICE"),
        NewCustomer(Name_AhmadSdnBhd, 100 * Mills, "WEIGHT_PRICE")>> }

InitRecord ==
    /\ customers \in NamedCatalogs
    /\ model \in BOOLEAN
    /\ op = "input"
    /\ arg \in [image : {[name |-> FileNames[1], is_image |-> TRUE,
                          ocr |-> [kind |-> "records", records |-> rs]] :
                            rs \in SeqsUpTo(NamedRecords, MaxNamedRecords)},
                behaviour : IF model THEN ArbiterBehaviours ELSE {[kind |-> "unavailable"]}]
    /\ ret = [none |-> TRUE]

ProcessSingleImage ==
    /\ op = "input"
    /\ op' = "process_single_image"
    /\ ret' = [records |-> process_single_image(customers, model, arg.behaviour, arg.image)]
    /\ UNCHANGED <<customers, model, arg>>

NextRecord == ProcessSingleImage

SpecRecord == InitRecord /\ [][NextRecord]_vars

(***************************************************************************)
(* Properties of the record reconciler (SpecRecord)                        *)
(***************************************************************************)
\* the records of the image whose names are not blank after normalization
RECURSIVE NormalizedNonBlank(_)
NormalizedNonBlank(records) ==
    IF records = <<>> THEN <<>>
    ELSE (IF clean_name_for_matching(Head(records).customer_name.v) # <<>>
          THEN <<Head(records)>> ELSE <<>>) \o NormalizedNonBlank(Tail(records))

\* C20: a record whose customer name is blank after normalization, a name
\* that is only "Mr." or "Sdn Bhd" included, is skipped: it produces no
\* output entry and the arbitrator is not called for it, so the output
\* entries are those of the records whose normalized names are not blank.
C20_SkipsNormalizedBlank ==
    op = "process_single_image" =>
        /\ \A k \in 1..Len(ret.records) :
              clean_name_for_matching(ret.records[k].customer_name.v) # <<>>
        /\ [k \in 1..Len(ret.records) |-> ret.records[k].customer_name]
               = [k \in 1..Len(NormalizedNonBlank(arg.image.ocr.records)) |->
                     NormalizedNonBlank(arg.image.ocr.records)[k].customer_name]

\* the header cell's text contains both "price" and "ton", in any letter case
BothPriceKeywords(cell) ==
    /\ cell.kind = "str"
    /\ Contains(Lower(cell.v), Kw_price)
    /\ Contains(Lower(cell.v), Kw_ton)

\* C21: a header cell is taken as the price column only when its text
\* contains both "price" and "ton"; under a header row in which no cell
\* contains both, no price is read and every loaded customer has price 0.
C21_PriceNeedsBothKeywords ==
    (Loaded /\ ret.raised = "none"
        /\ \A i \in 1..Len(arg.wb.header) : ~BothPriceKeywords(arg.wb.header[i]))
            => \A k \in 1..Len(customers) : customers[k].price_per_ton = 0

\* C22: after a successful load every customer that has both a company and
\* a worker amount satisfies company_amount + worker_amount = price, and a
\* worker amount absent from the sheet is price - company_amount.
C22_AmountsSumToPrice ==
    (Loaded /\ ret.raised = "none") =>
        \A k \in 1..Len(customers) :
            (customers[k].company_amount # None /\ customers[k].worker_amount # None)
                => Val(customers[k].company_amount) + Val(customers[k].worker_amount)
                       = customers[k].price_per_ton

\* C23: for a match_found record the reconciled invoice carries the matched
\* canonical name, and the record is reported as a fuzzy match iff the
\* matched name differs from the extracted name and the extracted name is
\* not empty; for a new_customer_detected record the invoice keeps the
\* extracted name and that name is listed among the new customers.
C23_NamesAndLists ==
    (Served /\ ret.kind = "success" /\ Len(Reconciled) = 1) =>
        LET Holds(rec, original) ==
                /\ Len(ret.invoice_objects) = 1
                /\ rec.status \in {"match_found", "new_customer_detected"}
                /\ rec.status = "match_found" =>
                      /\ ret.invoice_objects[1].customer_name = rec.matched_customer_name
                      /\ ret.new_customers_added = <<>>
                      /\ ret.fuzzy_matches_found =
                             IF rec.matched_customer_name # original /\ original # <<>>
                             THEN << [original |-> original,
                                      matched |-> rec.matched_customer_name,
                                      confidence |-> rec.confidence_score] >>
                             ELSE <<>>
                /\ rec.status = "new_customer_detected" =>
                      /\ ret.invoice_objects[1].customer_name = original
                      /\ ret.new_customers_added = <<original>>
                      /\ ret.fuzzy_matches_found = <<>>
        IN  Holds(Reconciled[1], Reconciled[1].customer_name.v)

\* a match under the extracted name itself, which is no fuzzy match
C23_Witness ==
    /\ Served
    /\ ret.kind = "success"
    /\ Len(Reconciled) = 1
    /\ Reconciled[1].status = "match_found"
    /\ Reconciled[1].customer_name = Str(Name_AhmadSdnBhd)
    /\ ret.invoice_objects[1].customer_name = Name_AhmadSdnBhd
    /\ ret.fuzzy_matches_found = <<>>
    /\ ret.new_customers_added = <<>>

\* a match under another name, reported as a fuzzy match
C23_Witness_Fuzzy ==
    /\ Served
    /\ ret.kind = "success"
    /\ Reconciled[1].status = "match_found"
    /\ Reconciled[1].customer_name = Str(Query_ahmad)
    /\ Len(ret.fuzzy_matches_found) = 1

\* a new customer, listed under the extracted name
C23_Witness_New ==
    /\ Served
    /\ ret.kind = "success"
    /\ Reconciled[1].status = "new_customer_detected"
    /\ ret.new_customers_added = <<Query_ahmad>>

(***************************************************************************)
(* GeminiOCRClient: what extract_json_from_image does to a parsed record   *)
(***************************************************************************)
Kw_memetik == <<"m","e","m","e","t","i","k">>
Kw_tandan == <<"t","a","n","d","a","n">>
Kw_sawit == <<"s","a","w","i","t">>
Kw_pengangkutan == <<"p","e","n","g","a","n","g","k","u","t","a","n">>
Kw_sewa == <<"s","e","w","a">>
Kw_lori == <<"l","o","r","i">>

\* "weight-based services (use /1000)"
weight_based_keywords == <<Kw_memetik, Kw_tandan, Kw_sawit, Kw_pengangkutan, Kw_sewa, Kw_lori>>

\* _determine_is_count
determine_is_count(service_type) ==
    LET service_lower == Lower(service_type)
    IN  IF \E i \in 1..Len(weight_based_keywords) : Contains(service_lower, weight_based_keywords[i])
        THEN FALSE ELSE TRUE

\* One record of the loop that follows json.loads: the fallback for a
\* missing is_count, then the special handling of Lain-lain.
PostProcessRecord(record) ==
    LET service_type == IF record.service_type.kind = "str" THEN record.service_type.v ELSE <<>>
        WithCount(r) ==
            IF r.is_count.kind = "missing"
            THEN [r EXCEPT !.is_count = [kind |-> "bool", v |-> determine_is_count(service_type)]]
            ELSE r
        Lain(r) ==
            IF Contains(Lower(service_type), Kw_lain)
                   /\ r.weight_kg # Num(1 * Mills)
            THEN LET extracted_price == IF r.weight_kg.kind = "missing" THEN Num(10 * Mills) ELSE r.weight_kg
                     price == IF r.price_per_ton.kind = "missing" \/ r.price_per_ton = Num(0)
                              THEN extracted_price ELSE r.price_per_ton
                 IN  [r EXCEPT !.weight_kg = Num(1 * Mills), !.price_per_ton = price, !.total = price]
            ELSE r
    IN  Lain(WithCount(record))

(***************************************************************************)
(* Specification of the extraction fallback: one parsed record of one of   *)
(* the documented service types, written in some letter case, with or      *)
(* without an is_count field.                                              *)
(***************************************************************************)
Svc_Memetik == <<"M","e","m","e","t","i","k"," ","T","a","n","d","a","n"," ","S","a","w","i","t">>
Svc_Pengangkutan == <<"P","e","n","g","a","n","g","k","u","t","a","n">>
Svc_SewaLori == <<"S","e","w","a"," ","L","o","r","i">>
Svc_Memotong == <<"M","e","m","o","t","o","n","g"," ","P","e","l","e","p","a","h"," ","S","a","w","i","t">>
Svc_Meracun == <<"M","e","r","a","c","u","n">>
Svc_Membaja == <<"M","e","m","b","a","j","a">>
Svc_LainLain == <<"L","a","i","n","-","l","a","i","n">>

\* the documented classification: the service type and whether it is count-based
ServiceTypes ==
    { [name |-> Svc_Memetik, count_based |-> FALSE],
      [name |-> Svc_Pengangkutan, count_based |-> FALSE],
      [name |-> Svc_SewaLori, count_based |-> FALSE],
      [name |-> Svc_Memotong, count_based |-> TRUE],
      [name |-> Svc_Meracun, count_based |-> TRUE],
      [name |-> Svc_Membaja, count_based |-> TRUE],
      [name |-> Svc_LainLain, count_based |-> TRUE] }

Spellings(name) == {name, Lower(name), Upper(name)}

ParsedRecords ==
    { [service_type |-> Str(t), is_count |-> c, weight_kg |-> w, price_per_ton |-> p, total |-> Missing] :
          t \in UNION {Spellings(s.name) : s \in ServiceTypes},
          c \in {Missing, [kind |-> "bool", v |-> TRUE], [kind |-> "bool", v |-> FALSE]},
          w \in {Missing, Num(1 * Mills), Num(500 * Mills)},
          p \in {Num(0), Num(10 * Mills)} }

InitExtract ==
    /\ customers = <<>>
    /\ model = TRUE
    /\ op = "input"
    /\ arg \in [record : ParsedRecords]
    /\ ret = [none |-> TRUE]

ExtractJsonFromImage ==
    /\ op = "input"
    /\ op' = "extract_json_from_image"
    /\ ret' = [records |-> <<PostProcessRecord(arg.record)>>]
    /\ UNCHANGED <<customers, model, arg>>

NextExtract == ExtractJsonFromImage

SpecExtract == InitExtract /\ [][NextExtract]_vars

(***************************************************************************)
(* Properties of the extraction fallback (SpecExtract)                     *)
(***************************************************************************)
\* C24: when the record lacks is_count, the fallback classifier gives every
\* documented service type its documented class: Memetik Tandan Sawit and
\* Pengangkutan/Sewa Lori weight-based, Memotong Pelepah Sawit, Meracun,
\* Membaja and Lain-lain count-based.
C24_FallbackClassification ==
    (op = "extract_json_from_image" /\ arg.record.is_count.kind = "missing") =>
        \A s \in ServiceTypes :
            Lower(arg.record.service_type.v) = Lower(s.name)
                => ret.records[1].is_count = [kind |-> "bool", v |-> s.count_based]

\* C25: the similarity search returns each catalog customer at most once,
\* and with k at least the size of the catalog it returns every customer
\* with its own price, two customers of the same normalized name included.
C25_EachCustomerOnce ==
    Searched =>
        /\ \A i \in 1..Len(customers) :
              Cardinality({k \in 1..Len(ret.results) :
                              ret.results[k].customer_name = customers[i].name}) <= 1
        /\ arg.top_k >= Len(customers) =>
              \A i \in 1..Len(customers) :
                  \E k \in 1..Len(ret.results) :
                      /\ ret.results[k].customer_name = customers[i].name
                      /\ ret.results[k].price_per_ton = customers[i].price_per_ton

\* C26: when the arbiter answers with exactly the name of one of the top
\* candidates, that candidate is the selected one, even if the name of a
\* higher-ranked candidate is a substring of the answer.
C26_ExactAnswerSelected ==
    (Resolved /\ ret.arbiter_called /\ arg.behaviour.kind = "text"
        /\ \E i \in 1..Len(ret.top_candidates) :
              ret.top_candidates[i].customer_name = arg.behaviour.text)
            => ret.ai_choice = Some(arg.behaviour.text)

\* C27: with the arbiter unavailable the fallback selects the first element
\* of the ranked candidate list, and resolve returns match_found with that
\* candidate iff its combined confidence is >= 0.5 and
\* new_customer_detected otherwise: the outcome is determined by the
\* catalog, the extracted name and the extracted price.
C27_FallbackIsFirstRanked ==
    (Resolved /\ ~model /\ ret.all_candidates # <<>>) =>
        LET Outcome(first) ==
                /\ ret.ai_choice = Some(first.customer_name)
                /\ ret.decision =
                       IF first.combined_confidence >= 5000
                       THEN [status |-> "match_found",
                             matched_customer_name |-> first.customer_name,
                             confidence_score |-> first.combined_confidence,
                             original_name |-> arg.extracted_name,
                             price_match |-> first.exact_price_match,
                             extracted_price |-> arg.extracted_price,
                             customer_price |-> first.customer_price]
                       ELSE [status |-> "new_customer_detected", confidence |-> 0]
        IN  Outcome(ret.all_candidates[1])

\* the first-ranked candidate is below 0.5 and a later one is not
C27_Witness ==
    /\ Resolved
    /\ ~model
    /\ Len(ret.all_candidates) >= 2
    /\ ret.all_candidates[1].combined_confidence < 5000
    /\ ret.all_candidates[2].combined_confidence >= 5000
    /\ ret.decision.status = "new_customer_detected"

\* C28: a failed catalog load leaves the previously loaded catalog
\* unchanged: whenever load_from_excel raises, the customer list afterwards
\* equals the customer list before the call.
C28_FailedLoadKeepsCatalog ==
    [][(op' = "load_from_excel" /\ ret'.raised # "none") => customers' = customers]_vars

\* C29: customer names are unique in the catalog: after a load no two
\* catalog entries have the same name.
C29_LoadedNamesUnique ==
    (Loaded /\ ret.raised = "none") =>
        \A i, j \in 1..Len(customers) : customers[i].name = customers[j].name => i = j

\* C30: in a success response every name in new_customers_added and every
\* entry of fuzzy_matches_found belongs to an invoice of the report, a
\* record dropped in the conversion contributes to neither list, and
\* total_processed is the number of invoices written.
C30_ListsMatchReport ==
    (Served /\ ret.kind = "success") =>
        /\ ret.total_processed = Len(ret.report)
        /\ \A k \in 1..Len(ret.new_customers_added) :
              \E i \in 1..Len(ret.invoice_objects) :
                  ret.invoice_objects[i].customer_name = ret.new_customers_added[k]
        /\ \A k \in 1..Len(ret.fuzzy_matches_found) :
              \E i \in 1..Len(ret.invoice_objects) :
                  ret.invoice_objects[i].customer_name = ret.fuzzy_matches_found[k].matched
        /\ Len(ret.new_customers_added) + Len(ret.fuzzy_matches_found) <= Len(ret.invoice_objects)

====
